---- MODULE Spec2Model ----
(***************************************************************************)
(* A model of the dolianova water-transfer controller (src/dolianova.py):  *)
(* the Well level estimator, the Pump/Well observer coupling, the five     *)
(* control states with their check and action, Context.check's fixed-point *)
(* loop, the Measures snapshot, the History store and Controller.load/run. *)
(*                                                                         *)
(* Time is a natural number of clock units (datetime.now()).  The well's   *)
(* fractional level is a numerator over LevelDen, so that delta/fill_period*)
(* and delta/empty_period are whole numbers of units, together with the    *)
(* rounding of the double level / 100.0 the well is built from, as far as  *)
(* int(100.0 * _level) sees it.                                            *)
(* One call of Context.check/action/measures and one Controller.run tick   *)
(* observe a single clock value, as under the frozen clock of the tests.   *)
(***************************************************************************)
EXTENDS Integers, Sequences, FiniteSets, TLC

VARIABLES
  now,             \* datetime.now()
  context,         \* Controller.context, or the Context under a direct call
  history,         \* Controller.history.measures
  measures_file,   \* the snapshot file
  measures_mtime,  \* os.path.getmtime(measures_file)
  history_file,    \* the history file
  pc,              \* where Controller.run stands
  history_length,  \* run's local history_length
  measures,        \* run's local measures: <<>> before the capture, then <<m>>
  result,          \* what the last finished run returned: <<>> for None, or <<m>>
  calls,           \* the State.check calls of the last Context.check
  restarts,        \* how many times the process was started again
  op,              \* the last operation called directly on a Context or a Well
  well,            \* a Well used on its own
  level_read,      \* what the last read of that Well's level returned
  built,           \* what that Well was built with, and when
  notified,        \* the calls the pumps made on their listeners in the last action
  settings,        \* the Settings object
  loaded,          \* what the last deserialize returned: <<>> before it, then <<x>>
  settings_file,   \* the settings file
  load_error,      \* the exception Controller.load raised, or "none"
  twin,            \* a second Well, built as well was and told of the pump alike
  controller,      \* the legacy WaterSystemController and its state file
  sensor_pins,     \* is_active of the legacy controller's sensor pins
  ws_pc,           \* where the legacy controller's process stands
  runs             \* how many runs main has started, where they are counted

vars == <<now, context, history, measures_file, measures_mtime, history_file, pc,
          history_length, measures, result, calls, restarts, op, well, level_read,
          built, notified, settings, loaded, settings_file, load_error, twin,
          controller, sensor_pins, ws_pc, runs>>

\* ------------------------------------------------------------- bounds
\* The clock runs from 0 to MaxTime.
MaxTime == 4
\* Context.check's loop is unrolled at most MaxChain times.
MaxChain == 6
\* The process is stopped and started again at most MaxRestarts times.
MaxRestarts == 1

\* The snapshots built directly carry a time from 0 to MaxSnapshotTime.
MaxSnapshotTime == 2

\* ----------------------------------------------------------- settings
\* Settings.fill_period, Settings.empty_period, Settings.settle_time, in
\* clock units.
FillPeriod == 1
EmptyPeriod == 3
SettleTime == 2
\* Controller.should_write_heartbeat: timedelta(minutes=1), in clock units.
HeartbeatWindow == 1

\* ------------------------------------------------------------ values
\* class TankLevel
EMPTY == "empty"
MEDIUM == "medium"
FULL == "full"
TankLevel == {EMPTY, MEDIUM, FULL}

\* the subclasses of State
FillWell == "FillWell"
FillLargeTank == "FillLargeTank"
SettleLargeTank == "SettleLargeTank"
FillSmallTank == "FillSmallTank"
SmallTankInUse == "SmallTankInUse"
State == {FillWell, FillLargeTank, SettleLargeTank, FillSmallTank, SmallTankInUse}

Max(a, b) == IF a >= b THEN a ELSE b
Min(a, b) == IF a <= b THEN a ELSE b

\* ---------------------------------------------------------------- Well
\* Well._level is level / LevelDen; one clock unit of filling adds
\* LevelDen / FillPeriod, one of draining takes LevelDen / EmptyPeriod.
LevelDen == 100 * FillPeriod * EmptyPeriod
FillStep == 100 * EmptyPeriod
EmptyStep == 100 * FillPeriod

\* --- the double level / 100.0 and what int(100.0 * _level) makes of it
RECURSIVE Pow2(_)
Pow2(n) == IF n = 0 THEN 1 ELSE 2 * Pow2(n - 1)

\* 2^n % m
RECURSIVE Pow2Mod(_, _)
Pow2Mod(n, m) == IF n = 0 THEN 1 % m ELSE (2 * Pow2Mod(n - 1, m)) % m

\* For level in 1..100 the double level / 100.0 is q * 2^-(52 + j), with j the
\* BinaryExponent below (level * 2^j in [100, 200)) and q the whole number
\* nearest to level * 2^(52 + j) / 100 (a tie cannot happen: level * 2^(52 + j)
\* is a multiple of 4 and 100 * q + 50 is not).
BinaryExponent(level) ==
  CHOOSE j \in 0..7 :
    /\ level * Pow2(j) >= 100
    /\ (j = 0 \/ level * Pow2(j - 1) < 100)

\* level * 2^(52 + j) - 100 * q, between -49 and 49: what the division lost
\* (positive: the double is below level / 100)
DivisionResidue(level) ==
  LET rem == (level * Pow2Mod(52 + BinaryExponent(level), 100)) % 100
  IN IF rem < 50 THEN rem ELSE rem - 100

\* level is a power of two
IsPow2(level) == \E p \in 0..6 : level = Pow2(p)

\* int(100.0 * (level / 100.0)) for level in 0..100.  The product is exactly
\* level - r * 2^-(52 + j), r the residue; the doubles just below level are
\* 2^-(52 + j) * 2^s apart, where 2^s is the power of two in [64, 128] that
\* level * 2^j reaches (halved when level itself is a power of two), and the
\* product rounds to the nearest of them, level itself on a tie.
IntOfProduct(level) ==
  IF level = 0 THEN 0
  ELSE LET r == DivisionResidue(level)
           scaled == level * Pow2(BinaryExponent(level))
           spacing == IF IsPow2(level) THEN 64
                      ELSE IF scaled >= 128 THEN 128 ELSE 64
       IN IF r > 0 /\ 2 * r > spacing THEN level - 1 ELSE level

\* Well._update_level without line 81, the clamp to [0, 1]
Well_update_level_unclamped(w, t) ==
  LET delta_time == t - w.last_update
      moved == IF w.pump_active
               THEN w.level - delta_time * EmptyStep
               ELSE w.level + delta_time * FillStep
  IN [w EXCEPT !.level = moved,
               !.short = IF delta_time = 0 THEN w.short ELSE 0,
               !.last_update = t]

\* Well._update_level at clock value t.  With no time elapsed the double is
\* left as it is (x + 0.0 and the clamp give x back).  Once time has elapsed
\* it is no longer the double of a whole percentage: with these periods it
\* is 0.0, 1.0 or thirds away from a whole percentage.
Well_update_level(w, t) ==
  LET delta_time == t - w.last_update
      moved == IF w.pump_active
               THEN w.level - delta_time * EmptyStep
               ELSE w.level + delta_time * FillStep
  IN [w EXCEPT !.level = Max(0, Min(LevelDen, moved)),
               !.short = IF delta_time = 0 THEN w.short ELSE 0,
               !.last_update = t]

\* int(100.0 * x) for x exactly level / LevelDen
Percent(level) == (100 * level) \div LevelDen

\* Well.level: the well after the read, and the value read
Well_level_after(w, t) == Well_update_level(w, t)
Well_level(w, t) ==
  LET u == Well_update_level(w, t) IN Percent(u.level) - u.short

\* Well.__init__(level, last_update) at clock value t.  short is 1 when the
\* double level / 100.0 is so far below level / 100 that 100.0 times it
\* rounds below level, and 0 otherwise.
Well_init(level, last_update, t) ==
  Well_update_level(
    [level |-> (level * LevelDen) \div 100,
     short |-> level - IntOfProduct(level),
     last_update |-> last_update,
     pump_active |-> FALSE], t)

\* Well.pump_activated setting the flag before it recomputes the level
Well_pump_activated_flag_first(w, t) ==
  IF w.pump_active THEN w
  ELSE Well_update_level([w EXCEPT !.pump_active = TRUE], t)

\* Well.pump_activated / Well.pump_deactivated at clock value t
Well_pump_activated(w, t) ==
  IF w.pump_active THEN w
  ELSE [Well_update_level(w, t) EXCEPT !.pump_active = TRUE]

Well_pump_deactivated(w, t) ==
  IF ~w.pump_active THEN w
  ELSE [Well_update_level(w, t) EXCEPT !.pump_active = FALSE]

\* ------------------------------------------------- the level as a double
\* The Well above keeps its level as an exact fraction, which is what the
\* doubles of the code amount to at whole clock units with FillPeriod = 1 and
\* EmptyPeriod = 3.  For other periods the roundings of the double arithmetic
\* show in the percentage read; what follows is the Well with its level as
\* the double the code keeps.
\*
\* A double x with 0 <= x < 2^IntBits that is a whole multiple of
\* 2^-FractionBits is written <<x1, x2, x3, x4>>, its IntBits + FractionBits
\* binary digits in four groups of LimbBits, the highest first:
\* x = (x1 * Base^3 + x2 * Base^2 + x3 * Base + x4) / 2^FractionBits.
\* The doubles of a Well are of that kind as long as no period is longer
\* than 128 clock units: every quotient is 0 or at least 1/128, so that its
\* 53 digits end at 2^-59 or before, and sums, differences and products by
\* 100 of such numbers have no digit below 2^-59 either.
LimbBits == 17
IntBits == 8
FractionBits == 4 * LimbBits - IntBits
\* a double has 53 significant binary digits
Precision == 53
Base == Pow2(LimbBits)

\* the groups of a number given with groups that are too large: carried over
Carried(x) ==
  LET c3 == x[3] + x[4] \div Base
      c2 == x[2] + c3 \div Base
  IN <<x[1] + c2 \div Base, c2 % Base, c3 % Base, x[4] % Base>>

\* the whole number n < 2^IntBits
FromInt(n) == <<n * Pow2(LimbBits - IntBits), 0, 0, 0>>

\* the whole part of x
Whole(x) == x[1] \div Pow2(LimbBits - IntBits)

\* x < y
Less(x, y) ==
  \E i \in 1..4 : x[i] < y[i] /\ \A j \in 1..(i - 1) : x[j] = y[j]

\* x + y, exactly
Add(x, y) == Carried(<<x[1] + y[1], x[2] + y[2], x[3] + y[3], x[4] + y[4]>>)

\* x - y for x >= y, exactly: one unit of each group is lent to the next
Sub(x, y) ==
  Carried(<<x[1] - y[1] - 1, x[2] - y[2] + Base - 1, x[3] - y[3] + Base - 1,
            x[4] - y[4] + Base>>)

\* 100 * x, exactly
Times100(x) == Carried(<<100 * x[1], 100 * x[2], 100 * x[3], 100 * x[4]>>)

\* a / b for whole numbers a >= 0 and b > 0, cut after FractionBits digits,
\* by long division: [digits, inexact: something was cut]
Quotient(a, b) ==
  LET n1 == a * Pow2(LimbBits - IntBits)
      n2 == (n1 % b) * Base
      n3 == (n2 % b) * Base
      n4 == (n3 % b) * Base
  IN [digits |-> <<n1 \div b, n2 \div b, n3 \div b, n4 \div b>>,
      inexact |-> n4 % b # 0]

\* how many binary digits the whole number v has
BitLength(v) ==
  CHOOSE k \in 0..LimbBits : v < Pow2(k) /\ (k = 0 \/ v >= Pow2(k - 1))

\* how many binary digits x has, from its highest 1 down to 2^-FractionBits
Length(x) ==
  IF x[1] > 0 THEN 3 * LimbBits + BitLength(x[1])
  ELSE IF x[2] > 0 THEN 2 * LimbBits + BitLength(x[2])
  ELSE IF x[3] > 0 THEN LimbBits + BitLength(x[3])
  ELSE BitLength(x[4])

\* x, with something more below its last digit when inexact, rounded to the
\* nearest double, to the even one of two equally near.  The digits that go
\* are the last Length(x) - Precision, fewer than LimbBits.
Round(x, inexact) ==
  LET n == Length(x) - Precision
  IN IF n <= 0 THEN x
     ELSE LET unit == Pow2(n)
              tail == x[4] % unit
              odd == (x[4] \div unit) % 2 = 1
              up == \/ 2 * tail > unit
                    \/ 2 * tail = unit /\ (inexact \/ odd)
          IN IF up THEN Carried(<<x[1], x[2], x[3], x[4] - tail + unit>>)
             ELSE <<x[1], x[2], x[3], x[4] - tail>>

\* a / b of two whole numbers as Python computes it (int / int, int / float
\* of a whole number, timedelta / timedelta): the double nearest to the
\* quotient
TrueDiv(a, b) == Round(Quotient(a, b).digits, Quotient(a, b).inexact)

\* the doubles 0.0 and 1.0
Double0 == FromInt(0)
Double1 == FromInt(1)

\* Well._update_level at clock value t, on doubles; w is [level,
\* fill_period, empty_period, last_update, pump_active].  A difference below
\* zero is a negative double, which max(0.0, ...) turns into 0.0.
Double_update_level(w, t) ==
  LET delta_time == t - w.last_update
      moved == IF w.pump_active
               THEN LET q == TrueDiv(delta_time, w.empty_period)
                    IN IF Less(w.level, q) THEN Double0
                       ELSE Round(Sub(w.level, q), FALSE)
               ELSE Round(Add(w.level, TrueDiv(delta_time, w.fill_period)), FALSE)
  IN [w EXCEPT !.level = IF Less(Double1, moved) THEN Double1 ELSE moved,
               !.last_update = t]

\* Well.level on doubles: the value read, int(100.0 * self._level)
Double_level(w, t) ==
  Whole(Round(Times100(Double_update_level(w, t).level), FALSE))

\* Well.__init__ on doubles, at clock value t
Double_init(level, fill_period, empty_period, last_update, t) ==
  Double_update_level(
    [level |-> TrueDiv(level, 100),
     fill_period |-> fill_period,
     empty_period |-> empty_period,
     last_update |-> last_update,
     pump_active |-> FALSE], t)

\* Well.pump_activated / Well.pump_deactivated on doubles
Double_pump_activated(w, t) ==
  IF w.pump_active THEN w
  ELSE [Double_update_level(w, t) EXCEPT !.pump_active = TRUE]

Double_pump_deactivated(w, t) ==
  IF ~w.pump_active THEN w
  ELSE [Double_update_level(w, t) EXCEPT !.pump_active = FALSE]

\* ---------------------------------------------------------------- Pump
\* the two calls a pump makes on a listener
PumpActivated == "pump_activated"
PumpDeactivated == "pump_deactivated"

\* Pump.listeners of the well-to-large-tank pump without line 167
WellPumpListeners_unsubscribed == <<>>

\* Pump.listeners of the two pumps of a Context: Context.__post_init__ adds
\* the well to the well-to-large-tank pump, the other pump has no listener
WellPumpListeners == <<"well">>
SmallPumpListeners == <<>>

\* Pump.activate calling the listeners only when the flag changes
Pump_activate_guarded(active, listeners) ==
  [active |-> TRUE,
   calls |-> IF active THEN <<>>
             ELSE [i \in 1..Len(listeners) |-> PumpActivated]]

\* Pump.activate on a pump whose flag is active: [active: the flag after the
\* call, calls: the calls made on the listeners, in their order]
Pump_activate(active, listeners) ==
  [active |-> TRUE,
   calls |-> [i \in 1..Len(listeners) |-> PumpActivated]]

\* Pump.deactivate, likewise
Pump_deactivate(active, listeners) ==
  [active |-> FALSE,
   calls |-> [i \in 1..Len(listeners) |-> PumpDeactivated]]

\* the well after the calls a pump made on it
RECURSIVE Well_notified(_, _, _)
Well_notified(w, pump_calls, t) ==
  IF pump_calls = <<>> THEN w
  ELSE Well_notified(
         IF Head(pump_calls) = PumpActivated THEN Well_pump_activated(w, t)
         ELSE Well_pump_deactivated(w, t),
         Tail(pump_calls), t)

\* well_to_large_tank_pump.activate() / .deactivate(); c is the Context.
WellPump_activate(c, t) ==
  LET r == Pump_activate(c.well_to_large_tank_pump, WellPumpListeners)
  IN [c EXCEPT !.well_to_large_tank_pump = r.active,
               !.well = Well_notified(c.well, r.calls, t)]

WellPump_deactivate(c, t) ==
  LET r == Pump_deactivate(c.well_to_large_tank_pump, WellPumpListeners)
  IN [c EXCEPT !.well_to_large_tank_pump = r.active,
               !.well = Well_notified(c.well, r.calls, t)]

\* lower_to_small_tank_pump.activate() / .deactivate()
SmallPump_activate(c, t) ==
  [c EXCEPT !.lower_to_small_tank_pump =
              Pump_activate(c.lower_to_small_tank_pump, SmallPumpListeners).active]

SmallPump_deactivate(c, t) ==
  [c EXCEPT !.lower_to_small_tank_pump =
              Pump_deactivate(c.lower_to_small_tank_pump, SmallPumpListeners).active]

\* ------------------------------------------------------- State.check
\* Context.same_state_since
same_state_since(c, t) == t - c.state_activated_at

\* FillWell.check comparing with >= 99 for == 100
FillWell_check_early(c, t) ==
  LET c1 == [c EXCEPT !.well = Well_level_after(c.well, t)]
  IN IF Well_level(c.well, t) >= 99
     THEN [ret |-> FillLargeTank, ctx |-> c1]
     ELSE [ret |-> FillWell, ctx |-> c1]

\* Each check gives [ret: the state returned, ctx: the Context after the call]
\* (reading Well.level updates the well).
FillWell_check(c, t) ==
  LET c1 == [c EXCEPT !.well = Well_level_after(c.well, t)]
  IN IF Well_level(c.well, t) = 100
     THEN [ret |-> FillLargeTank, ctx |-> c1]
     ELSE [ret |-> FillWell, ctx |-> c1]

\* FillLargeTank.check with its two tests in the other order
FillLargeTank_check_swapped(c, t) ==
  LET c1 == [c EXCEPT !.well = Well_level_after(c.well, t)]
  IN IF Well_level(c.well, t) = 0
     THEN [ret |-> FillWell, ctx |-> c1]
     ELSE IF c.large_tank = FULL
          THEN [ret |-> SettleLargeTank, ctx |-> c1]
          ELSE [ret |-> FillLargeTank, ctx |-> c1]

\* FillLargeTank.check without lines 258-259: an empty well is not looked at
FillLargeTank_check_staying(c, t) ==
  IF c.large_tank = FULL
  THEN [ret |-> SettleLargeTank, ctx |-> c]
  ELSE [ret |-> FillLargeTank, ctx |-> c]

\* FillLargeTank.check without lines 256-257: a full large tank is not
\* looked at
FillLargeTank_check_overfilling(c, t) ==
  LET c1 == [c EXCEPT !.well = Well_level_after(c.well, t)]
  IN IF Well_level(c.well, t) = 0
     THEN [ret |-> FillWell, ctx |-> c1]
     ELSE [ret |-> FillLargeTank, ctx |-> c1]

FillLargeTank_check(c, t) ==
  LET c1 == [c EXCEPT !.well = Well_level_after(c.well, t)]
  IN IF c.large_tank = FULL
     THEN [ret |-> SettleLargeTank, ctx |-> c]
     ELSE IF Well_level(c.well, t) = 0
          THEN [ret |-> FillWell, ctx |-> c1]
          ELSE [ret |-> FillLargeTank, ctx |-> c1]

\* SettleLargeTank.check comparing with >= for >
SettleLargeTank_check_ge(c, t) ==
  IF c.large_tank # FULL
  THEN [ret |-> FillLargeTank, ctx |-> c]
  ELSE IF same_state_since(c, t) >= SettleTime
       THEN [ret |-> FillSmallTank, ctx |-> c]
       ELSE [ret |-> SettleLargeTank, ctx |-> c]

SettleLargeTank_check(c, t) ==
  IF c.large_tank # FULL
  THEN [ret |-> FillLargeTank, ctx |-> c]
  ELSE IF same_state_since(c, t) > SettleTime
       THEN [ret |-> FillSmallTank, ctx |-> c]
       ELSE [ret |-> SettleLargeTank, ctx |-> c]

\* FillSmallTank.check with its two tests in the other order
FillSmallTank_check_swapped(c, t) ==
  IF c.small_tank = FULL
  THEN [ret |-> SmallTankInUse, ctx |-> c]
  ELSE IF c.large_tank = EMPTY
       THEN [ret |-> FillLargeTank, ctx |-> c]
       ELSE [ret |-> FillSmallTank, ctx |-> c]

FillSmallTank_check(c, t) ==
  IF c.large_tank = EMPTY
  THEN [ret |-> FillLargeTank, ctx |-> c]
  ELSE IF c.small_tank = FULL
       THEN [ret |-> SmallTankInUse, ctx |-> c]
       ELSE [ret |-> FillSmallTank, ctx |-> c]

\* SmallTankInUse.check with its two tests in the other order
SmallTankInUse_check_swapped(c, t) ==
  IF c.small_tank = EMPTY
  THEN [ret |-> FillSmallTank, ctx |-> c]
  ELSE IF c.large_tank = EMPTY
       THEN [ret |-> FillLargeTank, ctx |-> c]
       ELSE [ret |-> SmallTankInUse, ctx |-> c]

\* SmallTankInUse.check with its second test inverted
SmallTankInUse_check_inverted(c, t) ==
  IF c.large_tank = EMPTY
  THEN [ret |-> FillLargeTank, ctx |-> c]
  ELSE IF c.small_tank # EMPTY
       THEN [ret |-> FillSmallTank, ctx |-> c]
       ELSE [ret |-> SmallTankInUse, ctx |-> c]

SmallTankInUse_check(c, t) ==
  IF c.large_tank = EMPTY
  THEN [ret |-> FillLargeTank, ctx |-> c]
  ELSE IF c.small_tank = EMPTY
       THEN [ret |-> FillSmallTank, ctx |-> c]
       ELSE [ret |-> SmallTankInUse, ctx |-> c]

\* self.current_state.check(self)
State_check(c, t) ==
  CASE c.current_state = FillWell -> FillWell_check(c, t)
    [] c.current_state = FillLargeTank -> FillLargeTank_check(c, t)
    [] c.current_state = SettleLargeTank -> SettleLargeTank_check(c, t)
    [] c.current_state = FillSmallTank -> FillSmallTank_check(c, t)
    [] c.current_state = SmallTankInUse -> SmallTankInUse_check(c, t)

\* ------------------------------------------------------ State.action
\* The pump commands of each state's action, in the order the code issues them.
WellOn == "well_to_large_tank_pump.activate"
WellOff == "well_to_large_tank_pump.deactivate"
SmallOn == "lower_to_small_tank_pump.activate"
SmallOff == "lower_to_small_tank_pump.deactivate"

FillWell_action == <<WellOff, SmallOff>>
\* FillLargeTank.action leaving the well pump off
FillLargeTank_action_idle == <<WellOff, SmallOff>>
FillLargeTank_action == <<WellOn, SmallOff>>
SettleLargeTank_action == <<WellOff, SmallOff>>
FillSmallTank_action == <<WellOff, SmallOn>>
SmallTankInUse_action == <<WellOff, SmallOff>>

\* the dispatch of action with SmallTankInUse given FillSmallTank's commands
State_action_pasted(c) ==
  CASE c.current_state = FillWell -> FillWell_action
    [] c.current_state = FillLargeTank -> FillLargeTank_action
    [] c.current_state = SettleLargeTank -> SettleLargeTank_action
    [] c.current_state = FillSmallTank -> FillSmallTank_action
    [] c.current_state = SmallTankInUse -> FillSmallTank_action

\* self.current_state.action: the commands of the current state
State_action(c) ==
  CASE c.current_state = FillWell -> FillWell_action
    [] c.current_state = FillLargeTank -> FillLargeTank_action
    [] c.current_state = SettleLargeTank -> SettleLargeTank_action
    [] c.current_state = FillSmallTank -> FillSmallTank_action
    [] c.current_state = SmallTankInUse -> SmallTankInUse_action

\* one pump command applied to the Context
Command(c, cmd, t) ==
  CASE cmd = WellOn -> WellPump_activate(c, t)
    [] cmd = WellOff -> WellPump_deactivate(c, t)
    [] cmd = SmallOn -> SmallPump_activate(c, t)
    [] cmd = SmallOff -> SmallPump_deactivate(c, t)

\* the calls one pump command makes on the listeners of its pump
Command_calls(c, cmd) ==
  CASE cmd = WellOn -> Pump_activate(c.well_to_large_tank_pump, WellPumpListeners).calls
    [] cmd = WellOff -> Pump_deactivate(c.well_to_large_tank_pump, WellPumpListeners).calls
    [] cmd = SmallOn -> Pump_activate(c.lower_to_small_tank_pump, SmallPumpListeners).calls
    [] cmd = SmallOff -> Pump_deactivate(c.lower_to_small_tank_pump, SmallPumpListeners).calls

\* Context.action
Context_action(c, t) ==
  Command(Command(c, State_action(c)[1], t), State_action(c)[2], t)

\* the calls Context.action makes on the listeners of the pumps
Context_action_calls(c, t) ==
  Command_calls(c, State_action(c)[1])
    \o Command_calls(Command(c, State_action(c)[1], t), State_action(c)[2])

\* ----------------------------------------------------- Context.check
\* One State.check call as Context.check sees it: what was called, on which
\* readings, and what it returned.
CallRecord(c, t) ==
  [state |-> c.current_state,
   well_level |-> Well_level(c.well, t),
   large_tank |-> c.large_tank,
   small_tank |-> c.small_tank,
   since |-> same_state_since(c, t),
   ret |-> State_check(c, t).ret]

\* The while loop of Context.check, entered with new_state already computed
\* by a first call; r is [ctx, calls, diverged].
RECURSIVE Context_check_loop(_, _, _)
Context_check_loop(r, t, fuel) ==
  LET c == r.ctx
      res == State_check(c, t)
      r1 == [r EXCEPT !.calls = Append(r.calls, CallRecord(c, t))]
  IN IF res.ret = c.current_state
     THEN [r1 EXCEPT !.ctx = res.ctx]
     ELSE IF fuel = 0
          THEN [r1 EXCEPT !.ctx = res.ctx, !.diverged = TRUE]
          ELSE Context_check_loop(
                 [r1 EXCEPT !.ctx = [res.ctx EXCEPT !.current_state = res.ret,
                                                    !.state_activated_at = t]],
                 t, fuel - 1)

\* Context.check with an if for its while: one transition at most
Context_check_once(c, t) ==
  LET res == State_check(c, t)
  IN [ctx |-> IF res.ret = c.current_state THEN res.ctx
              ELSE [res.ctx EXCEPT !.current_state = res.ret,
                                   !.state_activated_at = t],
      calls |-> <<CallRecord(c, t)>>,
      diverged |-> FALSE]

\* Context.check setting state_activated_at on every call
Context_check_stamping(c, t) ==
  LET r == Context_check_loop([ctx |-> c, calls |-> <<>>, diverged |-> FALSE],
                              t, MaxChain)
  IN [r EXCEPT !.ctx.state_activated_at = t]

\* Context.check applying the action of the state it has entered
Context_check_acting(c, t) ==
  LET r == Context_check_loop([ctx |-> c, calls |-> <<>>, diverged |-> FALSE],
                              t, MaxChain)
  IN IF Len(r.calls) > 1
     THEN [r EXCEPT !.ctx = Context_action(r.ctx, t)]
     ELSE r

\* Context.check at clock value t: [ctx: the Context after the call,
\* calls: the State.check calls it made, diverged: the loop did not settle]
Context_check(c, t) ==
  Context_check_loop([ctx |-> c, calls |-> <<>>, diverged |-> FALSE], t, MaxChain)

\* ------------------------------------------------------------ Measures
\* Context.measures at clock value t: [m: the snapshot, ctx: the Context
\* after the call (reading Well.level updates the well)]
Context_measures(c, t) ==
  [m |-> [time |-> t,
          well_level |-> Well_level(c.well, t),
          large_tank_level |-> c.large_tank,
          small_tank_level |-> c.small_tank,
          well_to_large_tank_pump_active |-> c.well_to_large_tank_pump,
          lower_to_small_tank_pump_active |-> c.lower_to_small_tank_pump,
          current_state |-> c.current_state,
          state_activated_at |-> c.state_activated_at],
   ctx |-> [c EXCEPT !.well = Well_level_after(c.well, t)]]

\* Measures.__eq__: the dataclass equality, time being field(compare=False)
Measures_eq(a, b) ==
  /\ a.well_level = b.well_level
  /\ a.large_tank_level = b.large_tank_level
  /\ a.small_tank_level = b.small_tank_level
  /\ a.well_to_large_tank_pump_active = b.well_to_large_tank_pump_active
  /\ a.lower_to_small_tank_pump_active = b.lower_to_small_tank_pump_active
  /\ a.current_state = b.current_state
  /\ a.state_activated_at = b.state_activated_at

\* Measures.initial at clock value t
Measures_initial(t) ==
  [time |-> t, well_level |-> 0,
   large_tank_level |-> EMPTY, small_tank_level |-> EMPTY,
   well_to_large_tank_pump_active |-> FALSE,
   lower_to_small_tank_pump_active |-> FALSE,
   current_state |-> FillWell, state_activated_at |-> t]

\* datetime.isoformat / datetime.fromisoformat: the text of a clock value
isoformat(t) == <<"iso", t>>
fromisoformat(s) == s[2]

\* json.dumps / json.loads.  A text is the document it spells and whether
\* it is spelled to the end: the text of a JSON object cut short anywhere
\* before its closing brace is not a JSON text, and json.loads raises
\* ValueError on it.
json_dumps(data) == [data |-> data, complete |-> TRUE]
json_loads_raises(text) == ~text.complete
json_loads(text) == text.data

\* a file whose write was cut short: open(file, "w") empties the file and
\* the text reaches it in pieces
Truncated(text) == [text EXCEPT !.complete = FALSE]

\* Measures.serialize: the text of the JSON document
Measures_serialize(m) ==
 json_dumps(
  [time |-> isoformat(m.time),
   well_level |-> m.well_level,
   large_tank_level |-> m.large_tank_level,
   small_tank_level |-> m.small_tank_level,
   well_to_large_tank_pump_active |-> m.well_to_large_tank_pump_active,
   lower_to_small_tank_pump_active |-> m.lower_to_small_tank_pump_active,
   current_state |-> m.current_state,
   state_activated_at |-> isoformat(m.state_activated_at)])

\* Measures.deserialize taking state_activated_at from the time
Measures_deserialize_pasted(s) ==
 LET d == json_loads(s) IN
  [time |-> fromisoformat(d.time),
   well_level |-> d.well_level,
   large_tank_level |-> d.large_tank_level,
   small_tank_level |-> d.small_tank_level,
   well_to_large_tank_pump_active |-> d.well_to_large_tank_pump_active,
   lower_to_small_tank_pump_active |-> d.lower_to_small_tank_pump_active,
   current_state |-> d.current_state,
   state_activated_at |-> fromisoformat(d.time)]

\* Measures.deserialize raises: line 346, json.loads(s)
Measures_deserialize_raises(s) == json_loads_raises(s)

\* Measures.deserialize, when it does not raise
Measures_deserialize(s) ==
 LET d == json_loads(s) IN
  [time |-> fromisoformat(d.time),
   well_level |-> d.well_level,
   large_tank_level |-> d.large_tank_level,
   small_tank_level |-> d.small_tank_level,
   well_to_large_tank_pump_active |-> d.well_to_large_tank_pump_active,
   lower_to_small_tank_pump_active |-> d.lower_to_small_tank_pump_active,
   current_state |-> d.current_state,
   state_activated_at |-> fromisoformat(d.state_activated_at)]

\* Measures.copy
Measures_copy(m) == Measures_deserialize(Measures_serialize(m))

\* ------------------------------------------------------------ Settings
\* timedelta(seconds=n) for a whole number n of seconds: a timedelta keeps
\* days, seconds below a day and microseconds
SecondsPerDay == 86400
timedelta(n) ==
  [days |-> n \div SecondsPerDay, seconds |-> n % SecondsPerDay, microseconds |-> 0]

\* timedelta.total_seconds(), for a timedelta of whole seconds
total_seconds(d) == d.days * SecondsPerDay + d.seconds

\* Settings.serialize: the text of the JSON document
Settings_serialize(st) ==
 json_dumps(
  [fill_period |-> total_seconds(st.fill_period),
   empty_period |-> total_seconds(st.empty_period),
   settle_time |-> total_seconds(st.settle_time),
   large_tank_low_floater_pin |-> st.large_tank_low_floater_pin,
   large_tank_high_floater_pin |-> st.large_tank_high_floater_pin,
   small_tank_low_floater_pin |-> st.small_tank_low_floater_pin,
   small_tank_high_floater_pin |-> st.small_tank_high_floater_pin,
   well_to_large_tank_pump_pin |-> st.well_to_large_tank_pump_pin,
   lower_to_small_tank_pump_pin |-> st.lower_to_small_tank_pump_pin])

\* Settings.deserialize raises: line 407, json.loads(s)
Settings_deserialize_raises(s) == json_loads_raises(s)

\* Settings.deserialize, when it does not raise
Settings_deserialize(s) ==
 LET d == json_loads(s) IN
  [fill_period |-> timedelta(d.fill_period),
   empty_period |-> timedelta(d.empty_period),
   settle_time |-> timedelta(d.settle_time),
   large_tank_low_floater_pin |-> d.large_tank_low_floater_pin,
   large_tank_high_floater_pin |-> d.large_tank_high_floater_pin,
   small_tank_low_floater_pin |-> d.small_tank_low_floater_pin,
   small_tank_high_floater_pin |-> d.small_tank_high_floater_pin,
   well_to_large_tank_pump_pin |-> d.well_to_large_tank_pump_pin,
   lower_to_small_tank_pump_pin |-> d.lower_to_small_tank_pump_pin]

\* One clock unit of the model is an hour.
SecondsPerUnit == 3600

\* type PinID = int | str: a pin is a name or a number, written in digits
PinName(name) == [type |-> "str", value |-> name]
PinNumber(digits) == [type |-> "int", value |-> digits]

\* the Settings the Controller and the Contexts of the model run with
ModelSettings ==
  [fill_period |-> timedelta(FillPeriod * SecondsPerUnit),
   empty_period |-> timedelta(EmptyPeriod * SecondsPerUnit),
   settle_time |-> timedelta(SettleTime * SecondsPerUnit),
   large_tank_low_floater_pin |-> PinName("GPIO2"),
   large_tank_high_floater_pin |-> PinName("GPIO3"),
   small_tank_low_floater_pin |-> PinName("GPIO4"),
   small_tank_high_floater_pin |-> PinName("GPIO5"),
   well_to_large_tank_pump_pin |-> PinName("GPIO6"),
   lower_to_small_tank_pump_pin |-> PinName("GPIO7")]

\* ------------------------------------------------------------- History
\* History.measures, an insertion-ordered dict, is a sequence of
\* [key, value, shared] entries with distinct keys; shared says that the
\* Measures object under the key is the very object the caller of add holds,
\* so that what the caller does to its object is done to the entry.
History_last(h) == h[Len(h)].value

\* dict.__setitem__: a new key goes last, an existing key keeps its place
Dict_set(h, k, e) ==
  LET entry == [key |-> k, value |-> e.value, shared |-> e.shared]
  IN IF \E i \in 1..Len(h) : h[i].key = k
     THEN [i \in 1..Len(h) |-> IF h[i].key = k THEN entry ELSE h[i]]
     ELSE Append(h, entry)

\* History.add storing measures itself, without the copy
History_stored_uncopied(m) == [value |-> m, shared |-> TRUE]

\* what History.add stores for measures: measures.copy(), a new object
History_stored(m) == [value |-> Measures_copy(m), shared |-> FALSE]

\* History.add comparing the time as well
History_add_eq_time(h, m) ==
  IF Len(h) > 0 /\ History_last(h) = m
  THEN h
  ELSE Dict_set(h, m.time, History_stored(m))

\* History.add comparing with every stored entry, not the last one only
History_add_dedup_all(h, m) ==
  IF \E i \in 1..Len(h) : Measures_eq(h[i].value, m)
  THEN h
  ELSE Dict_set(h, m.time, History_stored(m))

\* History.add
History_add(h, m) ==
  IF Len(h) > 0 /\ Measures_eq(History_last(h), m)
  THEN h
  ELSE Dict_set(h, m.time, History_stored(m))

\* History.serialize: the text of a JSON object of the texts of the entries
History_serialize(h) ==
  json_dumps([i \in 1..Len(h) |-> [key |-> isoformat(h[i].key),
                                   value |-> Measures_serialize(h[i].value)]])

\* History.deserialize raises: line 469, json.loads(s), or line 471,
\* Measures.deserialize(m) on one of the entries
History_deserialize_raises(s) ==
  \/ json_loads_raises(s)
  \/ \E i \in 1..Len(json_loads(s)) :
       Measures_deserialize_raises(json_loads(s)[i].value)

\* History.deserialize, when it does not raise
History_deserialize(s) ==
  LET d == json_loads(s)
  IN [i \in 1..Len(d) |-> [key |-> fromisoformat(d[i].key),
                           value |-> Measures_deserialize(d[i].value),
                           shared |-> FALSE]]

\* ---------------------------------------------------------- Controller
\* Context.from_settings_and_measures entering the state anew: the entry
\* timestamp is the clock value of the call, not the one of the snapshot
Context_from_settings_and_measures_restamped(m, large, small, t) ==
  [well |-> Well_init(m.well_level, m.time, t),
   large_tank |-> large,
   small_tank |-> small,
   well_to_large_tank_pump |-> FALSE,
   lower_to_small_tank_pump |-> FALSE,
   current_state |-> m.current_state,
   state_activated_at |-> t]

\* Context.from_settings_and_measures at clock value t; large and small are
\* what the two GPIOTank sensors read.  The pumps are new, hence inactive.
Context_from_settings_and_measures(m, large, small, t) ==
  [well |-> Well_init(m.well_level, m.time, t),
   large_tank |-> large,
   small_tank |-> small,
   well_to_large_tank_pump |-> FALSE,
   lower_to_small_tank_pump |-> FALSE,
   current_state |-> m.current_state,
   state_activated_at |-> m.state_activated_at]

\* A file is <<>> when it does not exist and <<document>> when it does.
NoFile == <<>>
File(doc) == <<doc>>

\* Controller.context before load has assigned it (line 487 only declares it)
NoContext == [assigned |-> FALSE]

\* the exceptions Controller.load lets through
FileNotFoundError == "FileNotFoundError"
ValueError == "ValueError"

\* what Controller.load leaves when it raises err: nothing was assigned
Controller_load_raised(err) ==
  [error |-> err, context |-> NoContext, history |-> <<>>]

\* Controller.load going on with the settings of the model when the
\* settings file is not there
Controller_load_defaulting(sfile, mfile, hfile, large, small, t) ==
  IF sfile # NoFile /\ Settings_deserialize_raises(sfile[1])
  THEN Controller_load_raised(ValueError)
  ELSE IF mfile # NoFile /\ Measures_deserialize_raises(mfile[1])
  THEN Controller_load_raised(ValueError)
  ELSE IF hfile # NoFile /\ History_deserialize_raises(hfile[1])
  THEN Controller_load_raised(ValueError)
  ELSE
    LET m == IF mfile # NoFile THEN Measures_deserialize(mfile[1])
             ELSE Measures_initial(t)
        h == IF hfile # NoFile THEN History_deserialize(hfile[1]) ELSE <<>>
    IN [error |-> "none",
        context |-> Context_from_settings_and_measures(m, large, small, t),
        history |-> h]

\* Controller.load on the three files at clock value t, large and small being
\* what the floaters of the tanks read: [error: the exception raised, or
\* "none", context, history]
Controller_load(sfile, mfile, hfile, large, small, t) ==
  IF sfile = NoFile THEN Controller_load_raised(FileNotFoundError)
  ELSE IF Settings_deserialize_raises(sfile[1])
  THEN Controller_load_raised(ValueError)
  ELSE IF mfile # NoFile /\ Measures_deserialize_raises(mfile[1])
  THEN Controller_load_raised(ValueError)
  ELSE IF hfile # NoFile /\ History_deserialize_raises(hfile[1])
  THEN Controller_load_raised(ValueError)
  ELSE
    LET m == IF mfile # NoFile THEN Measures_deserialize(mfile[1])
             ELSE Measures_initial(t)
        h == IF hfile # NoFile THEN History_deserialize(hfile[1]) ELSE <<>>
    IN [error |-> "none",
        context |-> Context_from_settings_and_measures(m, large, small, t),
        history |-> h]

\* Controller.should_write_heartbeat with >= for the > of line 515
should_write_heartbeat_ge(mfile, mtime, t) ==
  IF mfile = NoFile THEN TRUE ELSE t - mtime >= HeartbeatWindow

\* Controller.should_write_heartbeat at clock value t
should_write_heartbeat(mfile, mtime, t) ==
  IF mfile = NoFile THEN TRUE ELSE t - mtime > HeartbeatWindow

\* =====================================================================
\* The legacy controller, src/water_system_controller.py
\* =====================================================================
\* pump_settings of the controller, in clock units
Pump1MaxDuration == 1
Pump1Cooldown == 2
Pump2WaitTime == 3

Pumps == <<"pump1", "pump2">>
\* the pumps whose settings hold 'max_duration'
HasMaxDuration(pump) == pump = "pump1"

\* None, and the truth value of a None-or-text field
None == <<>>
Truthy(v) == v # None

\* f'{pump}_running', f'{pump}_start_time', f'{pump}_last_on'
running_key(pump) == IF pump = "pump1" THEN "pump1_running" ELSE "pump2_running"
start_time_key(pump) ==
  IF pump = "pump1" THEN "pump1_start_time" ELSE "pump2_start_time"
last_on_key(pump) == IF pump = "pump1" THEN "pump1_last_on" ELSE "pump2_last_on"

\* read_state: the state of the file when there is one, or the default
read_state(file) ==
  IF file # NoFile THEN json_loads(file[1])
  ELSE [pump1_last_on |-> None, pump2_last_on |-> None,
        pump1_running |-> FALSE, pump2_running |-> FALSE,
        pump1_start_time |-> None, pump2_start_time |-> None,
        tank1_state |-> "filling"]

\* A controller is [state, state_file, pump_pins, write_calls, raised]:
\* self.state, the state file, whether each pump pin is on, how many times
\* write_state was called, and the exception raised (or "none").
\* WaterSystemController.__init__ on the state file
WaterSystemController(file) ==
  [state |-> read_state(file),
   state_file |-> file,
   pump_pins |-> [pump1 |-> FALSE, pump2 |-> FALSE],
   write_calls |-> 0,
   raised |-> "none"]

write_state(ws) ==
  [ws EXCEPT !.state_file = File(json_dumps(ws.state)),
             !.write_calls = @ + 1]

\* start_pump writing the state file again when the pump already runs
start_pump_rewriting(ws, pump, t) ==
  LET on == [ws EXCEPT !.pump_pins[pump] = TRUE]
  IN IF on.state[running_key(pump)] THEN write_state(on)
     ELSE write_state(
            [on EXCEPT !.state[running_key(pump)] = TRUE,
                       !.state[start_time_key(pump)] = isoformat(t),
                       !.state[last_on_key(pump)] = None])

start_pump(ws, pump, t) ==
  LET on == [ws EXCEPT !.pump_pins[pump] = TRUE]
  IN IF on.state[running_key(pump)] THEN on
     ELSE write_state(
            [on EXCEPT !.state[running_key(pump)] = TRUE,
                       !.state[start_time_key(pump)] = isoformat(t),
                       !.state[last_on_key(pump)] = None])

stop_pump(ws, pump, t) ==
  LET off == [ws EXCEPT !.pump_pins[pump] = FALSE]
  IN IF ~off.state[running_key(pump)] THEN off
     ELSE write_state(
            [off EXCEPT !.state[running_key(pump)] = FALSE,
                        !.state[start_time_key(pump)] = None,
                        !.state[last_on_key(pump)] = isoformat(t)])

\* check_pump_duration: the loop over pump_settings, pump1 then pump2; the
\* limit is pump1's for every pump (line 133)
check_pump_duration_of(ws, pump, t) ==
  IF HasMaxDuration(pump) /\ Truthy(ws.state[start_time_key(pump)])
     /\ t - fromisoformat(ws.state[start_time_key(pump)]) >= Pump1MaxDuration
  THEN stop_pump(ws, pump, t)
  ELSE ws

check_pump_duration(ws, t) ==
  check_pump_duration_of(check_pump_duration_of(ws, Pumps[1], t), Pumps[2], t)

set_tank1_state(ws, st) ==
  IF st = ws.state.tank1_state THEN ws
  ELSE write_state([ws EXCEPT !.state.tank1_state = st])

\* transfer_water_to_tank1; sensors are the is_active of the sensor pins
transfer_water_to_tank1(ws, sensors, t) ==
  IF ws.state.tank1_state # "filling" THEN ws
  ELSE IF Truthy(ws.state.pump1_last_on)
          /\ t - fromisoformat(ws.state.pump1_last_on) < Pump1Cooldown
  THEN ws
  ELSE LET started == IF ~sensors.tank1_max_level
                      THEN start_pump(ws, "pump1", t) ELSE ws
       IN IF sensors.tank1_max_level
          THEN stop_pump(set_tank1_state(started, "emptying"), "pump1", t)
          ELSE started

\* transfer_water_to_tank2 going on, as if the wait were not over, when
\* pump1_last_on is None
transfer_water_to_tank2_continuing(ws, sensors, t) ==
  IF ws.state.tank1_state # "emptying" THEN ws
  ELSE IF ws.state.pump1_last_on = None THEN ws
  ELSE IF t - fromisoformat(ws.state.pump1_last_on) < Pump2WaitTime THEN ws
  ELSE LET started == IF ~sensors.tank2_max_level
                      THEN start_pump(ws, "pump2", t) ELSE ws
           stopped == IF sensors.tank2_max_level
                      THEN stop_pump(started, "pump2", t) ELSE started
       IN IF ~sensors.tank1_min_level
          THEN stop_pump(set_tank1_state(stopped, "filling"), "pump2", t)
          ELSE stopped

transfer_water_to_tank2(ws, sensors, t) ==
  IF ws.state.tank1_state # "emptying" THEN ws
  ELSE IF ws.state.pump1_last_on = None
  THEN [ws EXCEPT !.raised = "Exception"]
  ELSE IF t - fromisoformat(ws.state.pump1_last_on) < Pump2WaitTime THEN ws
  ELSE LET started == IF ~sensors.tank2_max_level
                      THEN start_pump(ws, "pump2", t) ELSE ws
           stopped == IF sensors.tank2_max_level
                      THEN stop_pump(started, "pump2", t) ELSE started
       IN IF ~sensors.tank1_min_level
          THEN stop_pump(set_tank1_state(stopped, "filling"), "pump2", t)
          ELSE stopped

\* print_state changes nothing; it raises TypeError at line 90, on
\* datetime.fromisoformat(None)
print_state(ws) ==
  IF ws.state.tank1_state = "emptying" /\ ws.state.pump1_last_on = None
  THEN [ws EXCEPT !.raised = "TypeError"]
  ELSE ws

\* step; an exception ends it where it is raised
step(ws, sensors, t) ==
  LET a == transfer_water_to_tank2(transfer_water_to_tank1(ws, sensors, t),
                                   sensors, t)
  IN IF a.raised # "none" THEN a
     ELSE print_state(
            check_pump_duration(transfer_water_to_tank1(a, sensors, t), t))

\* main_loop, lines 193-194
main_loop_initialization(ws, t) ==
  stop_pump(stop_pump(ws, "pump1", t), "pump2", t)

legacy_vars == <<controller, sensor_pins, ws_pc>>

\* the sensor pins step reads (tank2_min_level is read by print_state only)
SensorReadings ==
  [tank1_min_level : BOOLEAN, tank1_max_level : BOOLEAN,
   tank2_max_level : BOOLEAN]

\* a legacy controller just constructed without a state file, all sensors
\* inactive
LegacyConstructed ==
  /\ controller = WaterSystemController(NoFile)
  /\ sensor_pins = [tank1_min_level |-> FALSE, tank1_max_level |-> FALSE,
                    tank2_max_level |-> FALSE]
  /\ ws_pc = "constructed"

\* =====================================================================
\* Spec: the Controller.  main() loads once and then calls run forever;
\* between two runs the clock advances and the tank floaters may move (they
\* are steady while the clock shows one value); the process may be stopped
\* and started again on the same files.
\* =====================================================================
well_vars == <<well, level_read, built, twin>>
store_vars == <<settings, loaded, settings_file, load_error>>
direct_vars == <<op, well_vars>>

Init ==
  /\ now = 0
  /\ \E large \in TankLevel, small \in TankLevel :
       LET l == Controller_load(File(Settings_serialize(ModelSettings)),
                                NoFile, NoFile, large, small, 0)
       IN /\ context = l.context
          /\ history = l.history
  /\ measures_file = NoFile
  /\ measures_mtime = 0
  /\ history_file = NoFile
  /\ pc = "idle"
  /\ history_length = 0
  /\ measures = <<>>
  /\ result = <<>>
  /\ calls = <<>>
  /\ restarts = 0
  /\ op = "none"
  /\ well = Well_init(0, 0, 0)
  /\ level_read = 0
  /\ built = [level |-> 0, last_update |-> 0, at |-> 0]
  /\ twin = well
  /\ notified = <<>>
  /\ settings = ModelSettings
  /\ loaded = <<>>
  /\ settings_file = File(Settings_serialize(settings))
  /\ load_error = "none"
  /\ LegacyConstructed
  /\ runs = 0

\* how far a tank level is from EMPTY
Rank(l) == CASE l = EMPTY -> 0 [] l = MEDIUM -> 1 [] l = FULL -> 2
Abs(x) == IF x < 0 THEN -x ELSE x

\* In one clock unit at most one tank moves, by one level.
Moves(large0, small0, large1, small1) ==
  Abs(Rank(large1) - Rank(large0)) + Abs(Rank(small1) - Rank(small0)) <= 1

\* main, line 551: time.sleep(1) after a run, one clock unit, during which
\* the floaters of the tanks may move
Sleep ==
  /\ pc = "sleep"
  /\ now < MaxTime
  /\ now' = now + 1
  /\ \E large \in TankLevel, small \in TankLevel :
       /\ Moves(context.large_tank, context.small_tank, large, small)
       /\ context' = [context EXCEPT !.large_tank = large, !.small_tank = small]
  /\ result' = <<>>
  /\ pc' = "idle"
  /\ UNCHANGED <<history, measures_file, measures_mtime, history_file,
                 history_length, measures, calls, restarts, direct_vars,
                 notified>>
  /\ UNCHANGED store_vars
  /\ UNCHANGED <<legacy_vars, runs>>

\* Controller.run, lines 518-519: history_length, self.context.check()
RunCheck ==
  /\ pc = "idle"
  /\ LET r == Context_check(context, now)
     IN /\ context' = r.ctx
        /\ calls' = r.calls
        /\ pc' = IF r.diverged THEN "diverged" ELSE "action"
  /\ history_length' = Len(history)
  /\ measures' = <<>>
  /\ result' = <<>>
  /\ UNCHANGED <<now, history, measures_file, measures_mtime, history_file,
                 restarts, direct_vars,
                 notified>>
  /\ UNCHANGED store_vars
  /\ UNCHANGED <<legacy_vars, runs>>

\* Controller.run, line 520: the first pump command of self.context.action()
RunActionFirst ==
  /\ pc = "action"
  /\ context' = Command(context, State_action(context)[1], now)
  /\ pc' = "action2"
  /\ notified' = Command_calls(context, State_action(context)[1])
  /\ UNCHANGED <<now, history, measures_file, measures_mtime, history_file,
                 history_length, measures, result, calls, restarts, direct_vars>>
  /\ UNCHANGED store_vars
  /\ UNCHANGED <<legacy_vars, runs>>

\* Controller.run, line 520: the second pump command of self.context.action()
RunActionSecond ==
  /\ pc = "action2"
  /\ context' = Command(context, State_action(context)[2], now)
  /\ pc' = "measures"
  /\ notified' = notified \o Command_calls(context, State_action(context)[2])
  /\ UNCHANGED <<now, history, measures_file, measures_mtime, history_file,
                 history_length, measures, result, calls, restarts, direct_vars>>
  /\ UNCHANGED store_vars
  /\ UNCHANGED <<legacy_vars, runs>>

\* Controller.run, line 521: measures = self.context.measures()
RunMeasures ==
  /\ pc = "measures"
  /\ LET r == Context_measures(context, now)
     IN /\ measures' = <<r.m>>
        /\ context' = r.ctx
  /\ pc' = "add"
  /\ UNCHANGED <<now, history, measures_file, measures_mtime, history_file,
                 history_length, result, calls, restarts, direct_vars,
                 notified>>
  /\ UNCHANGED store_vars
  /\ UNCHANGED <<legacy_vars, runs>>

\* Controller.run, line 522: self.history.add(measures)
RunHistoryAdd ==
  /\ pc = "add"
  /\ history' = History_add(history, measures[1])
  /\ pc' = "persist"
  /\ UNCHANGED <<now, context, measures_file, measures_mtime, history_file,
                 history_length, measures, result, calls, restarts, direct_vars,
                 notified>>
  /\ UNCHANGED store_vars
  /\ UNCHANGED <<legacy_vars, runs>>

\* Controller.run, lines 525-527: History grew, the snapshot file is written
RunWriteMeasures ==
  /\ pc = "persist"
  /\ Len(history) > history_length
  /\ measures_file' = File(Measures_serialize(measures[1]))
  /\ measures_mtime' = now
  /\ pc' = "write_history"
  /\ UNCHANGED <<now, context, history, history_file, history_length, measures,
                 result, calls, restarts, direct_vars,
                 notified>>
  /\ UNCHANGED store_vars
  /\ UNCHANGED <<legacy_vars, runs>>

\* Controller.run returning the snapshot without writing the history file
RunWriteHistory_skipping ==
  /\ pc = "write_history"
  /\ result' = measures
  /\ pc' = "sleep"
  /\ history_length' = 0
  /\ measures' = <<>>
  /\ calls' = <<>>
  /\ notified' = <<>>
  /\ UNCHANGED <<now, context, history, measures_file, measures_mtime,
                 history_file, restarts, direct_vars>>
  /\ UNCHANGED store_vars
  /\ UNCHANGED <<legacy_vars, runs>>

\* Controller.run, lines 528-530: then the history file, and run returns the
\* snapshot; its locals are gone
RunWriteHistory ==
  /\ pc = "write_history"
  /\ history_file' = File(History_serialize(history))
  /\ result' = measures
  /\ pc' = "sleep"
  /\ history_length' = 0
  /\ measures' = <<>>
  /\ calls' = <<>>
  /\ notified' = <<>>
  /\ UNCHANGED <<now, context, history, measures_file, measures_mtime,
                 restarts, direct_vars>>
  /\ UNCHANGED store_vars
  /\ UNCHANGED <<legacy_vars, runs>>

\* Controller.run, lines 532-535: no growth, a heartbeat is due
RunHeartbeat ==
  /\ pc = "persist"
  /\ ~(Len(history) > history_length)
  /\ should_write_heartbeat(measures_file, measures_mtime, now)
  /\ measures_file' = File(Measures_serialize(measures[1]))
  /\ measures_mtime' = now
  /\ result' = measures
  /\ pc' = "sleep"
  /\ history_length' = 0
  /\ measures' = <<>>
  /\ calls' = <<>>
  /\ notified' = <<>>
  /\ UNCHANGED <<now, context, history, history_file, restarts, direct_vars>>
  /\ UNCHANGED store_vars
  /\ UNCHANGED <<legacy_vars, runs>>

\* Controller.run, line 537: nothing to write, run returns None
RunNothing ==
  /\ pc = "persist"
  /\ ~(Len(history) > history_length)
  /\ ~should_write_heartbeat(measures_file, measures_mtime, now)
  /\ result' = <<>>
  /\ pc' = "sleep"
  /\ history_length' = 0
  /\ measures' = <<>>
  /\ calls' = <<>>
  /\ notified' = <<>>
  /\ UNCHANGED <<now, context, history, measures_file, measures_mtime, history_file,
                 restarts, direct_vars>>
  /\ UNCHANGED store_vars
  /\ UNCHANGED <<legacy_vars, runs>>

\* The process stops and main() starts again: Controller.load on the files
\* as they are.  What load builds depends on the files alone, so stopping
\* between two runs and between the two writes of a run are the two cases.
Restart ==
  /\ pc \in {"sleep", "write_history"}
  /\ restarts < MaxRestarts
  /\ restarts' = restarts + 1
  /\ LET l == Controller_load(settings_file, measures_file, history_file,
                              context.large_tank, context.small_tank, now)
     IN /\ context' = l.context
        /\ history' = l.history
        /\ load_error' = l.error
        /\ pc' = IF l.error = "none" THEN "idle" ELSE "failed"
  /\ history_length' = 0
  /\ measures' = <<>>
  /\ result' = <<>>
  /\ calls' = <<>>
  /\ notified' = <<>>
  /\ UNCHANGED <<now, measures_file, measures_mtime, history_file, direct_vars>>
  /\ UNCHANGED <<settings, loaded, settings_file>>
  /\ UNCHANGED <<legacy_vars, runs>>

Next ==
  \/ Sleep
  \/ RunCheck
  \/ RunActionFirst
  \/ RunActionSecond
  \/ RunMeasures
  \/ RunHistoryAdd
  \/ RunWriteMeasures
  \/ RunWriteHistory
  \/ RunHeartbeat
  \/ RunNothing
  \/ Restart

Spec == Init /\ [][Next]_vars

\* =====================================================================
\* SpecContext: a Context built directly, as the tests build it (any state,
\* any well level, any tank levels, new pumps), and called directly:
\* Context.check, Context.action, one State.check, FakeTank.set_level,
\* with the clock advancing between calls.
\* =====================================================================
\* the well levels a Context is built with
ContextLevels == {0, 1, 50, 99, 100}

run_vars == <<history, measures_file, measures_mtime, history_file, pc,
              history_length, measures, result, restarts>>

InitContext ==
  /\ now = 0
  /\ \E level \in ContextLevels, large \in TankLevel, small \in TankLevel,
        state \in State :
       context = [well |-> Well_init(level, 0, 0),
                  large_tank |-> large,
                  small_tank |-> small,
                  well_to_large_tank_pump |-> FALSE,
                  lower_to_small_tank_pump |-> FALSE,
                  current_state |-> state,
                  state_activated_at |-> 0]
  /\ history = <<>>
  /\ measures_file = NoFile
  /\ measures_mtime = 0
  /\ history_file = NoFile
  /\ pc = "direct"
  /\ history_length = 0
  /\ measures = <<>>
  /\ result = <<>>
  /\ calls = <<>>
  /\ restarts = 0
  /\ op = "Context"
  /\ well = Well_init(0, 0, 0)
  /\ level_read = 0
  /\ built = [level |-> 0, last_update |-> 0, at |-> 0]
  /\ twin = well
  /\ notified = <<>>
  /\ settings = ModelSettings
  /\ loaded = <<>>
  /\ settings_file = File(Settings_serialize(settings))
  /\ load_error = "none"
  /\ LegacyConstructed
  /\ runs = 0

\* context.check()
CallContextCheck ==
  /\ LET r == Context_check(context, now)
     IN /\ ~r.diverged
        /\ context' = r.ctx
        /\ calls' = r.calls
  /\ op' = "Context.check"
  /\ notified' = <<>>
  /\ UNCHANGED <<now, run_vars, well_vars>>
  /\ UNCHANGED store_vars
  /\ UNCHANGED <<legacy_vars, runs>>

\* context.action()
CallContextAction ==
  /\ context' = Context_action(context, now)
  /\ calls' = <<>>
  /\ op' = "Context.action"
  /\ notified' = Context_action_calls(context, now)
  /\ UNCHANGED <<now, run_vars, well_vars>>
  /\ UNCHANGED store_vars
  /\ UNCHANGED <<legacy_vars, runs>>

\* context.current_state.check(context): the state is returned, not entered
CallStateCheck ==
  /\ context' = State_check(context, now).ctx
  /\ calls' = <<CallRecord(context, now)>>
  /\ op' = "State.check"
  /\ notified' = <<>>
  /\ UNCHANGED <<now, run_vars, well_vars>>
  /\ UNCHANGED store_vars
  /\ UNCHANGED <<legacy_vars, runs>>

\* large_tank.set_level(l)
CallSetLargeTank ==
  /\ \E l \in TankLevel \ {context.large_tank} :
       context' = [context EXCEPT !.large_tank = l]
  /\ calls' = <<>>
  /\ op' = "set_level"
  /\ notified' = <<>>
  /\ UNCHANGED <<now, run_vars, well_vars>>
  /\ UNCHANGED store_vars
  /\ UNCHANGED <<legacy_vars, runs>>

\* small_tank.set_level(l)
CallSetSmallTank ==
  /\ \E l \in TankLevel \ {context.small_tank} :
       context' = [context EXCEPT !.small_tank = l]
  /\ calls' = <<>>
  /\ op' = "set_level"
  /\ notified' = <<>>
  /\ UNCHANGED <<now, run_vars, well_vars>>
  /\ UNCHANGED store_vars
  /\ UNCHANGED <<legacy_vars, runs>>

\* the clock advances between two calls
ClockAdvances ==
  /\ now < MaxTime
  /\ now' = now + 1
  /\ calls' = <<>>
  /\ op' = "clock"
  /\ notified' = <<>>
  /\ UNCHANGED <<context, run_vars, well_vars>>
  /\ UNCHANGED store_vars
  /\ UNCHANGED <<legacy_vars, runs>>

NextContext ==
  \/ CallContextCheck
  \/ CallContextAction
  \/ CallStateCheck
  \/ CallSetLargeTank
  \/ CallSetSmallTank
  \/ ClockAdvances

SpecContext == InitContext /\ [][NextContext]_vars

\* =====================================================================
\* SpecWell: a Well built directly with any level in 0..100 and a
\* last_update not after the clock, then read and notified in any order,
\* with the clock advancing between calls.
\* =====================================================================
InitWell ==
  /\ now \in 0..1
  /\ \E level \in 0..100, last_update \in 0..now :
       /\ well = Well_init(level, last_update, now)
       /\ built = [level |-> level, last_update |-> last_update, at |-> now]
  /\ twin = well
  /\ level_read = 0
  /\ notified = <<>>
  /\ settings = ModelSettings
  /\ loaded = <<>>
  /\ settings_file = File(Settings_serialize(settings))
  /\ load_error = "none"
  /\ op = "Well"
  /\ context = Controller_load(File(Settings_serialize(ModelSettings)),
                               NoFile, NoFile, EMPTY, EMPTY, 0).context
  /\ history = <<>>
  /\ measures_file = NoFile
  /\ measures_mtime = 0
  /\ history_file = NoFile
  /\ pc = "direct"
  /\ history_length = 0
  /\ measures = <<>>
  /\ result = <<>>
  /\ calls = <<>>
  /\ restarts = 0
  /\ LegacyConstructed
  /\ runs = 0

\* well.level
ReadWellLevel ==
  /\ level_read' = Well_level(well, now)
  /\ well' = Well_level_after(well, now)
  /\ op' = "Well.level"
  /\ UNCHANGED <<now, built, twin, context, calls, notified, run_vars>>
  /\ UNCHANGED store_vars
  /\ UNCHANGED <<legacy_vars, runs>>

\* well.pump_activated()
NotifyPumpActivated ==
  /\ well' = Well_pump_activated(well, now)
  /\ op' = "Well.pump_activated"
  /\ UNCHANGED <<now, level_read, built, twin, context, calls, notified, run_vars>>
  /\ UNCHANGED store_vars
  /\ UNCHANGED <<legacy_vars, runs>>

\* well.pump_deactivated()
NotifyPumpDeactivated ==
  /\ well' = Well_pump_deactivated(well, now)
  /\ op' = "Well.pump_deactivated"
  /\ UNCHANGED <<now, level_read, built, twin, context, calls, notified, run_vars>>
  /\ UNCHANGED store_vars
  /\ UNCHANGED <<legacy_vars, runs>>

\* the clock advances between two calls
WellClockAdvances ==
  /\ now < MaxTime
  /\ now' = now + 1
  /\ op' = "clock"
  /\ UNCHANGED <<well_vars, context, calls, notified, run_vars>>
  /\ UNCHANGED store_vars
  /\ UNCHANGED <<legacy_vars, runs>>

NextWell ==
  \/ ReadWellLevel
  \/ NotifyPumpActivated
  \/ NotifyPumpDeactivated
  \/ WellClockAdvances

SpecWell == InitWell /\ [][NextWell]_vars

\* =====================================================================
\* SpecHistory: a History and Measures objects built and used directly, as
\* the tests do: the caller makes a snapshot (measures_factory or
\* Measures.copy), sets its time or its well_level, and adds it to the
\* History, in any order.  measures is the object the caller holds and
\* history_length the len(history.measures) it saw before its last add.
\* =====================================================================
\* the Settings the caller makes: settings_factory(...) with periods of an
\* hour or more than a day and a pin given by name or by number
SettingsSet ==
  {[ModelSettings EXCEPT !.fill_period = timedelta(f * SecondsPerUnit),
                         !.settle_time = timedelta(st * SecondsPerUnit),
                         !.large_tank_low_floater_pin = pin] :
     f \in {1, 25}, st \in {12, 36}, pin \in {PinName("GPIO2"), PinNumber("2")}}

\* the snapshots the caller makes
Snapshots ==
  [time : 0..MaxSnapshotTime,
   well_level : {87, 88},
   large_tank_level : {MEDIUM},
   small_tank_level : {FULL},
   well_to_large_tank_pump_active : {FALSE},
   lower_to_small_tank_pump_active : {TRUE},
   current_state : {FillSmallTank},
   state_activated_at : {0}]

InitHistory ==
  /\ now = 0
  /\ history = <<>>
  /\ measures = <<>>
  /\ history_length = 0
  /\ op = "History"
  /\ pc = "direct"
  /\ context = Controller_load(File(Settings_serialize(ModelSettings)),
                               NoFile, NoFile, EMPTY, EMPTY, 0).context
  /\ measures_file = NoFile
  /\ measures_mtime = 0
  /\ history_file = NoFile
  /\ result = <<>>
  /\ calls = <<>>
  /\ restarts = 0
  /\ well = Well_init(0, 0, 0)
  /\ level_read = 0
  /\ built = [level |-> 0, last_update |-> 0, at |-> 0]
  /\ twin = well
  /\ notified = <<>>
  /\ settings \in SettingsSet
  /\ loaded = <<>>
  /\ settings_file = File(Settings_serialize(settings))
  /\ load_error = "none"
  /\ LegacyConstructed
  /\ runs = 0

history_frame == <<now, context, measures_file, measures_mtime, history_file, pc,
                   result, calls, restarts, well_vars, notified, settings,
                   settings_file, load_error>>

\* measures = measures_factory(...) or measures = measures.copy(): the caller
\* holds a new object and lets the old one go
MakeSnapshot ==
  /\ \E m \in Snapshots : measures' = <<m>>
  /\ history' = [i \in 1..Len(history) |-> [history[i] EXCEPT !.shared = FALSE]]
  /\ op' = "Measures"
  /\ UNCHANGED <<history_length, history_frame>>
  /\ loaded' = <<>>
  /\ UNCHANGED <<legacy_vars, runs>>

\* measures.time = t or measures.well_level = l on the object the caller
\* holds: an entry of the History that is that object changes with it
SetSnapshotField ==
  /\ measures # <<>>
  /\ \E m \in Snapshots :
       /\ \/ m = [measures[1] EXCEPT !.time = m.time] /\ m.time # measures[1].time
          \/ m = [measures[1] EXCEPT !.well_level = m.well_level]
               /\ m.well_level # measures[1].well_level
       /\ measures' = <<m>>
       /\ history' = [i \in 1..Len(history) |->
                        IF history[i].shared THEN [history[i] EXCEPT !.value = m]
                        ELSE history[i]]
  /\ op' = IF op \in {"History.add", "Measures.set after add"}
           THEN "Measures.set after add" ELSE "Measures.set"
  /\ UNCHANGED <<history_length, history_frame>>
  /\ loaded' = <<>>
  /\ UNCHANGED <<legacy_vars, runs>>

\* history.add(measures)
CallHistoryAdd ==
  /\ measures # <<>>
  /\ history_length' = Len(history)
  /\ history' = History_add(history, measures[1])
  /\ op' = "History.add"
  /\ UNCHANGED <<measures, history_frame>>
  /\ loaded' = <<>>
  /\ UNCHANGED <<legacy_vars, runs>>

\* Measures.deserialize(measures.serialize())
CallMeasuresRoundTrip ==
  /\ measures # <<>>
  /\ loaded' = <<Measures_deserialize(Measures_serialize(measures[1]))>>
  /\ op' = "Measures.deserialize"
  /\ UNCHANGED <<history, measures, history_length, history_frame>>
  /\ UNCHANGED <<legacy_vars, runs>>

\* History.deserialize(history.serialize())
CallHistoryRoundTrip ==
  /\ loaded' = <<History_deserialize(History_serialize(history))>>
  /\ op' = "History.deserialize"
  /\ UNCHANGED <<history, measures, history_length, history_frame>>
  /\ UNCHANGED <<legacy_vars, runs>>

\* Settings.deserialize(settings.serialize())
CallSettingsRoundTrip ==
  /\ loaded' = <<Settings_deserialize(Settings_serialize(settings))>>
  /\ op' = "Settings.deserialize"
  /\ UNCHANGED <<history, measures, history_length, history_frame>>
  /\ UNCHANGED <<legacy_vars, runs>>

NextHistory ==
  \/ MakeSnapshot
  \/ SetSnapshotField
  \/ CallHistoryAdd
  \/ CallMeasuresRoundTrip
  \/ CallHistoryRoundTrip
  \/ CallSettingsRoundTrip

SpecHistory == InitHistory /\ [][NextHistory]_vars

\* =====================================================================
\* SpecLoad: main() started on the files as an earlier process (or its
\* operator) left them: the settings file there or not, the snapshot file
\* and the history file there, not there, or cut short by a process that
\* stopped inside a write (lines 526-529 are not atomic).  Then
\* Controller.load, and the ticks of main's loop.
\* =====================================================================
\* the well levels of the snapshots on file
PersistedLevels == {0, 29, 50, 100}

\* A snapshot is taken after check and action, on the same readings: its
\* state is settled on its own levels and its pump flags are those of the
\* action of its state.
IsSettledSnapshot(m) ==
  /\ m.current_state = FillWell => m.well_level # 100
  /\ m.current_state = FillLargeTank =>
       m.large_tank_level # FULL /\ m.well_level # 0
  /\ m.current_state = SettleLargeTank => m.large_tank_level = FULL
  /\ m.current_state = FillSmallTank =>
       m.large_tank_level # EMPTY /\ m.small_tank_level # FULL
  /\ m.current_state = SmallTankInUse =>
       m.large_tank_level # EMPTY /\ m.small_tank_level # EMPTY
  /\ m.well_to_large_tank_pump_active = (m.current_state = FillLargeTank)
  /\ m.lower_to_small_tank_pump_active = (m.current_state = FillSmallTank)

\* the snapshots an earlier process may have left at clock value t
PersistedSnapshots(t) ==
  {m \in [time : {t},
          well_level : PersistedLevels,
          large_tank_level : {MEDIUM, FULL},
          small_tank_level : {EMPTY},
          well_to_large_tank_pump_active : BOOLEAN,
          lower_to_small_tank_pump_active : BOOLEAN,
          current_state : State,
          state_activated_at : Max(0, t - 1)..t] : IsSettledSnapshot(m)}

\* main is started one clock unit before the last clock value
StartTime == MaxTime - 1

\* the age of the files when main is started: up to MaxFileAge clock units
MaxFileAge == 2

\* the History whose only entry is the snapshot m
HistoryOf(m) == <<[key |-> m.time, value |-> m, shared |-> FALSE]>>

InitLoad ==
  /\ now = StartTime
  /\ \E t \in Max(0, now - MaxFileAge)..now :
       \E m \in PersistedSnapshots(t) :
         /\ measures_file \in {NoFile, File(Measures_serialize(m)),
                                File(Truncated(Measures_serialize(m)))}
         /\ measures_mtime = IF measures_file = NoFile THEN 0 ELSE t
         /\ history_file \in {NoFile, File(History_serialize(HistoryOf(m))),
                               File(Truncated(History_serialize(HistoryOf(m))))}
  /\ settings_file \in {NoFile, File(Settings_serialize(ModelSettings))}
  /\ settings = ModelSettings
  /\ context = NoContext
  /\ history = <<>>
  /\ pc = "start"
  /\ load_error = "none"
  /\ history_length = 0
  /\ measures = <<>>
  /\ result = <<>>
  /\ calls = <<>>
  /\ restarts = 0
  /\ op = "none"
  /\ well = Well_init(0, 0, 0)
  /\ level_read = 0
  /\ built = [level |-> 0, last_update |-> 0, at |-> 0]
  /\ twin = well
  /\ notified = <<>>
  /\ loaded = <<>>
  /\ LegacyConstructed
  /\ runs = 0

\* main, lines 546-547: Controller(...).load(); when load raises, main ends
Load ==
  /\ pc = "start"
  /\ \E large \in TankLevel, small \in TankLevel :
       LET l == Controller_load(settings_file, measures_file, history_file,
                                large, small, now)
       IN /\ context' = l.context
          /\ history' = l.history
          /\ load_error' = l.error
          /\ pc' = IF l.error = "none" THEN "idle" ELSE "failed"
  /\ UNCHANGED <<now, measures_file, measures_mtime, history_file,
                 history_length, measures, result, calls, restarts, direct_vars,
                 notified, settings, loaded, settings_file>>
  /\ UNCHANGED <<legacy_vars, runs>>

NextLoad ==
  \/ Load
  \/ Sleep
  \/ RunCheck
  \/ RunActionFirst
  \/ RunActionSecond
  \/ RunMeasures
  \/ RunHistoryAdd
  \/ RunWriteMeasures
  \/ RunWriteHistory
  \/ RunHeartbeat
  \/ RunNothing

SpecLoad == InitLoad /\ [][NextLoad]_vars

\* =====================================================================
\* SpecCadence: two Wells on doubles, built alike and told of every change
\* of the pump at the same clock values.  well is also read at any clock
\* value, and told again of what it already knows; twin is not.
\* =====================================================================
\* the levels and the periods, in clock units, the two Wells are built with
CadenceLevels == {0, 50, 100}
CadencePeriods == {5, 6}

InitCadence ==
  /\ now = 0
  /\ \E level \in CadenceLevels, fill_period \in CadencePeriods,
        empty_period \in CadencePeriods :
       /\ well = Double_init(level, fill_period, empty_period, 0, 0)
       /\ built = [level |-> level, last_update |-> 0, at |-> 0]
  /\ twin = well
  /\ level_read = Double_level(well, 0)
  /\ op = "Well"
  /\ context = NoContext
  /\ history = <<>>
  /\ measures_file = NoFile
  /\ measures_mtime = 0
  /\ history_file = NoFile
  /\ pc = "direct"
  /\ history_length = 0
  /\ measures = <<>>
  /\ result = <<>>
  /\ calls = <<>>
  /\ restarts = 0
  /\ notified = <<>>
  /\ settings = ModelSettings
  /\ loaded = <<>>
  /\ settings_file = File(Settings_serialize(settings))
  /\ load_error = "none"
  /\ LegacyConstructed
  /\ runs = 0

cadence_frame == <<context, calls, notified, run_vars, store_vars, built>>

\* well.level, one more read
ReadPolledWell ==
  /\ level_read' = Double_level(well, now)
  /\ well' = Double_update_level(well, now)
  /\ op' = "Well.level"
  /\ UNCHANGED <<now, twin, cadence_frame>>
  /\ UNCHANGED <<legacy_vars, runs>>

\* well.pump_activated() on a draining well, well.pump_deactivated() on a
\* filling one: a notification that does not change the flag
NotifyPolledWellAgain ==
  /\ well' = IF well.pump_active THEN Double_pump_activated(well, now)
             ELSE Double_pump_deactivated(well, now)
  /\ op' = "Well.pump_activated again"
  /\ UNCHANGED <<now, level_read, twin, cadence_frame>>
  /\ UNCHANGED <<legacy_vars, runs>>

\* the pump goes on: pump_activated() on both Wells
PumpGoesOn ==
  /\ ~well.pump_active
  /\ well' = Double_pump_activated(well, now)
  /\ twin' = Double_pump_activated(twin, now)
  /\ op' = "Well.pump_activated"
  /\ UNCHANGED <<now, level_read, cadence_frame>>
  /\ UNCHANGED <<legacy_vars, runs>>

\* the pump goes off: pump_deactivated() on both Wells
PumpGoesOff ==
  /\ well.pump_active
  /\ well' = Double_pump_deactivated(well, now)
  /\ twin' = Double_pump_deactivated(twin, now)
  /\ op' = "Well.pump_deactivated"
  /\ UNCHANGED <<now, level_read, cadence_frame>>
  /\ UNCHANGED <<legacy_vars, runs>>

\* the clock advances between two calls
CadenceClockAdvances ==
  /\ now < MaxTime
  /\ now' = now + 1
  /\ op' = "clock"
  /\ UNCHANGED <<well_vars, cadence_frame>>
  /\ UNCHANGED <<legacy_vars, runs>>

NextCadence ==
  \/ ReadPolledWell
  \/ NotifyPolledWellAgain
  \/ PumpGoesOn
  \/ PumpGoesOff
  \/ CadenceClockAdvances

SpecCadence == InitCadence /\ [][NextCadence]_vars

\* =====================================================================
\* The claims
\* =====================================================================
\* the two pump flags of the Context
WellPumpOn == context.well_to_large_tank_pump
SmallPumpOn == context.lower_to_small_tank_pump

\* C1: when Context.check returns, the check of the current state, on the
\* readings of that moment, gives the current state; the calls it made chain
\* (each returned state is the next one called) and end in that fixed point;
\* started in FillSmallTank with the large tank EMPTY and the well at 0% it
\* ends in FillWell.
C1_CheckReachesFixedPoint ==
  op = "Context.check" =>
    /\ State_check(context, now).ret = context.current_state
    /\ Len(calls) >= 1
    /\ \A i \in 1..(Len(calls) - 1) :
         calls[i].ret # calls[i].state /\ calls[i + 1].state = calls[i].ret
    /\ calls[Len(calls)].ret = calls[Len(calls)].state
    /\ calls[Len(calls)].state = context.current_state
    /\ (calls[1].state = FillSmallTank /\ calls[1].large_tank = EMPTY
          /\ calls[1].well_level = 0
        => context.current_state = FillWell)

\* C1 witness: one Context.check went FillSmallTank -> FillLargeTank -> FillWell
C1_Witness ==
  /\ op = "Context.check"
  /\ Len(calls) = 3
  /\ calls[1].state = FillSmallTank
  /\ calls[2].state = FillLargeTank
  /\ calls[3].state = FillWell
  /\ context.current_state = FillWell

\* C2: in a Controller.run the pumps are commanded only by the two commands of
\* the action, after Context.check has settled, and the commands are those of
\* the settled state: the check itself moves no pump, the well-to-large-tank
\* pump is only ever switched on by the action of a settled FillLargeTank, and
\* once the action is over the flags are those of the settled state.
C2_OnlySettledActionApplied ==
  [][/\ (pc = "idle" /\ pc' \in {"action", "diverged"}) =>
          /\ WellPumpOn' = WellPumpOn
          /\ SmallPumpOn' = SmallPumpOn
     /\ (pc' # "idle" /\ (WellPumpOn' # WellPumpOn \/ SmallPumpOn' # SmallPumpOn)) =>
          /\ pc \in {"action", "action2"}
          /\ State_check(context, now).ret = context.current_state
     /\ (pc' # "idle" /\ ~WellPumpOn /\ WellPumpOn') =>
          /\ pc = "action"
          /\ context.current_state = FillLargeTank
     /\ (pc = "action2" /\ pc' = "measures") =>
          /\ WellPumpOn' = (context.current_state = FillLargeTank)
          /\ SmallPumpOn' = (context.current_state = FillSmallTank)
          /\ context'.current_state = context.current_state
    ]_vars

\* C2 witness: a run whose check passed through FillLargeTank and settled in
\* SettleLargeTank has applied its action, the well-to-large-tank pump is off
C2_Witness ==
  /\ pc = "measures"
  /\ Len(calls) = 3
  /\ calls[2].state = FillLargeTank
  /\ context.current_state = SettleLargeTank
  /\ ~WellPumpOn

\* C3: a Context.check call that leaves current_state as it was leaves
\* state_activated_at as it was, and one that changes current_state sets
\* state_activated_at to the clock value of the call.
C3_StampIffStateChanges ==
  [][op' = "Context.check" =>
       /\ (context'.current_state = context.current_state
           => context'.state_activated_at = context.state_activated_at)
       /\ (context'.current_state # context.current_state
           => context'.state_activated_at = now)
    ]_vars

\* C3 witness: a Context.check changed the state later than the old state was
\* entered, and the timestamp is the time of the call
C3_Witness ==
  /\ op = "Context.check"
  /\ Len(calls) >= 2
  /\ now > 0
  /\ context.state_activated_at = now

\* C4: FillWell.check returns FillLargeTank exactly when the well reads 100%
\* and FillWell otherwise, whatever the tanks read; a Context.check that starts
\* in FillWell with the well at 100% does not end in FillWell.
C4_FillWellCheck ==
  /\ \A i \in 1..Len(calls) :
       calls[i].state = FillWell =>
         calls[i].ret = (IF calls[i].well_level = 100 THEN FillLargeTank ELSE FillWell)
  /\ (op = "Context.check" /\ calls[1].state = FillWell /\ calls[1].well_level = 100)
       => context.current_state # FillWell

\* C4 witness: FillWell.check was called with the well at 99% and stayed
C4_Witness ==
  /\ op = "State.check"
  /\ calls[1].state = FillWell
  /\ calls[1].well_level = 99
  /\ calls[1].ret = FillWell

\* C5: FillLargeTank.check returns SettleLargeTank when the large tank is FULL
\* (even with the well at 0%), else FillWell when the well reads 0%, else
\* FillLargeTank.
C5_FillLargeTankCheck ==
  \A i \in 1..Len(calls) :
    calls[i].state = FillLargeTank =>
      calls[i].ret = (IF calls[i].large_tank = FULL THEN SettleLargeTank
                      ELSE IF calls[i].well_level = 0 THEN FillWell
                      ELSE FillLargeTank)

\* C5 witness: FillLargeTank.check was called with the large tank FULL and the
\* well at 0%
C5_Witness ==
  /\ op = "State.check"
  /\ calls[1].state = FillLargeTank
  /\ calls[1].large_tank = FULL
  /\ calls[1].well_level = 0
  /\ calls[1].ret = SettleLargeTank

\* C6: SettleLargeTank.check returns FillLargeTank when the large tank is not
\* FULL, whatever the time in the state; with the large tank FULL it stays
\* while the time in the state is at most settle_time and returns
\* FillSmallTank only when it is strictly greater.
C6_SettleLargeTankCheck ==
  \A i \in 1..Len(calls) :
    calls[i].state = SettleLargeTank =>
      calls[i].ret = (IF calls[i].large_tank # FULL THEN FillLargeTank
                      ELSE IF calls[i].since <= SettleTime THEN SettleLargeTank
                      ELSE FillSmallTank)

\* C6 witness: SettleLargeTank.check was called with the large tank FULL
\* exactly settle_time after the state was entered, and stayed
C6_Witness ==
  /\ op = "State.check"
  /\ calls[1].state = SettleLargeTank
  /\ calls[1].large_tank = FULL
  /\ calls[1].since = SettleTime
  /\ calls[1].ret = SettleLargeTank

\* C7: FillSmallTank.check returns FillLargeTank when the large tank is EMPTY
\* (even with the small tank FULL), else SmallTankInUse when the small tank is
\* FULL, else FillSmallTank.
C7_FillSmallTankCheck ==
  \A i \in 1..Len(calls) :
    calls[i].state = FillSmallTank =>
      calls[i].ret = (IF calls[i].large_tank = EMPTY THEN FillLargeTank
                      ELSE IF calls[i].small_tank = FULL THEN SmallTankInUse
                      ELSE FillSmallTank)

\* C7 witness: FillSmallTank.check was called with the large tank EMPTY and
\* the small tank FULL
C7_Witness ==
  /\ op = "State.check"
  /\ calls[1].state = FillSmallTank
  /\ calls[1].large_tank = EMPTY
  /\ calls[1].small_tank = FULL
  /\ calls[1].ret = FillLargeTank

\* C8: SmallTankInUse.check returns FillLargeTank when the large tank is EMPTY
\* (even with the small tank EMPTY), else FillSmallTank when the small tank is
\* EMPTY, else SmallTankInUse.
C8_SmallTankInUseCheck ==
  \A i \in 1..Len(calls) :
    calls[i].state = SmallTankInUse =>
      calls[i].ret = (IF calls[i].large_tank = EMPTY THEN FillLargeTank
                      ELSE IF calls[i].small_tank = EMPTY THEN FillSmallTank
                      ELSE SmallTankInUse)

\* C8 witness: SmallTankInUse.check was called with both tanks EMPTY
C8_Witness ==
  /\ op = "State.check"
  /\ calls[1].state = SmallTankInUse
  /\ calls[1].large_tank = EMPTY
  /\ calls[1].small_tank = EMPTY
  /\ calls[1].ret = FillLargeTank

\* C9: after Context.action the well-to-large-tank pump is on exactly in
\* FillLargeTank and the large-to-small-tank pump exactly in FillSmallTank, so
\* both are off in FillWell, SettleLargeTank and SmallTankInUse, whatever
\* they were before.
C9_PumpsFollowState ==
  op = "Context.action" =>
    /\ WellPumpOn = (context.current_state = FillLargeTank)
    /\ SmallPumpOn = (context.current_state = FillSmallTank)

\* C9 witness: the action of SmallTankInUse has run after the well had been
\* drained by the well pump, and both pumps are off
C9_Witness ==
  /\ op = "Context.action"
  /\ context.current_state = SmallTankInUse
  /\ context.well.level < LevelDen
  /\ context.well.last_update > 0
  /\ ~WellPumpOn
  /\ ~SmallPumpOn

\* C10: a Well's fractional level is always within [0, 1] and every level it
\* returns is a whole percentage from 0 to 100.
C10_WellLevelInRange ==
  /\ well.level >= 0
  /\ well.level <= LevelDen
  /\ level_read \in 0..100

\* C10 witness: a draining well was read empty later than one empty_period
\* after it was built
C10_Witness ==
  /\ op = "Well.level"
  /\ well.pump_active
  /\ level_read = 0
  /\ well.level = 0
  /\ now > EmptyPeriod

\* C11: a Well built with level L and last_update = now reads L for as long
\* as the clock shows that instant, and a further read at the instant of a
\* read returns what that read returned and leaves the well as it is.
C11_ReadIsIdempotent ==
  /\ (op = "Well.level" /\ built.last_update = built.at /\ now = built.at)
       => level_read = built.level
  /\ op = "Well.level" =>
       /\ Well_level(well, now) = level_read
       /\ Well_level_after(well, now) = well

\* C12: a read of the level, D after the last update from the fractional
\* level x, returns floor(100 * min(1, x + D / fill_period)) with the pump
\* flag off and floor(100 * max(0, x - D / empty_period)) with it on (x is
\* well.level / LevelDen); a full draining well read one empty_period
\* after its last update reads 0, and a filling well read one fill_period
\* after its last update reads 100.
C12_LevelIsLinear ==
  [][op' = "Well.level" =>
       LET D == now - well.last_update
       IN /\ well.pump_active =>
               level_read' = (100 * Max(0, well.level - D * EmptyStep)) \div LevelDen
          /\ ~well.pump_active =>
               level_read' = (100 * Min(LevelDen, well.level + D * FillStep)) \div LevelDen
          /\ (well.pump_active /\ well.level = LevelDen /\ D = EmptyPeriod)
               => level_read' = 0
          /\ (~well.pump_active /\ D = FillPeriod) => level_read' = 100
    ]_vars

\* C13: Well.pump_activated on a well that is not draining counts the time
\* since last_update as filling, sets last_update to the clock and then sets
\* the draining flag, and changes nothing on a well that is draining;
\* Well.pump_deactivated on a draining well counts the time since last_update
\* as draining, sets last_update and clears the flag, and changes nothing on
\* a well that is not draining.
C13_RecomputeThenFlip ==
  [][LET D == now - well.last_update
     IN /\ op' = "Well.pump_activated" =>
             IF well.pump_active THEN well' = well
             ELSE /\ well'.level = Min(LevelDen, well.level + D * FillStep)
                  /\ well'.last_update = now
                  /\ well'.pump_active
        /\ op' = "Well.pump_deactivated" =>
             IF ~well.pump_active THEN well' = well
             ELSE /\ well'.level = Max(0, well.level - D * EmptyStep)
                  /\ well'.last_update = now
                  /\ ~well'.pump_active
    ]_vars

\* C13 witness: a well built empty at 0 and not read since was notified of
\* the activation one fill_period later, and is full and draining
C13_Witness ==
  /\ op = "Well.pump_activated"
  /\ built.level = 0
  /\ built.at = 0
  /\ now = FillPeriod
  /\ level_read = 0
  /\ well.pump_active
  /\ well.last_update = now
  /\ well.level = LevelDen

\* C14: the listeners of a pump are called only on an actual transition:
\* Context.action calls pump_activated on the well only when the
\* well-to-large-tank pump goes from inactive to active, pump_deactivated
\* only when it goes from active to inactive, and makes no call when the pump
\* stays as it was.
C14_NotifyOnlyOnTransition ==
  [][op' = "Context.action" =>
       notified' = (IF ~WellPumpOn /\ WellPumpOn' THEN <<PumpActivated>>
                    ELSE IF WellPumpOn /\ ~WellPumpOn' THEN <<PumpDeactivated>>
                    ELSE <<>>)
    ]_vars

\* C14 as amended: every Pump.activate and Pump.deactivate calls the
\* listeners, whatever the pump was: each Context.action makes exactly one
\* call on the well, pump_activated in FillLargeTank and pump_deactivated in
\* the other states; it is the well that ignores the call when the pump stays
\* as it was, and its draining flag follows the pump.
C14_EveryCallNotifies ==
  [][op' = "Context.action" =>
       /\ notified' = <<IF context.current_state = FillLargeTank
                        THEN PumpActivated ELSE PumpDeactivated>>
       /\ (WellPumpOn' = WellPumpOn => context'.well = context.well)
       /\ context'.well.pump_active = WellPumpOn'
    ]_vars

\* C14 witness: the action of FillLargeTank was applied again with the pump
\* already on: the well was called and has not been touched
C14_Witness ==
  /\ op = "Context.action"
  /\ context.current_state = FillLargeTank
  /\ notified = <<PumpActivated>>
  /\ WellPumpOn
  /\ context.well.pump_active
  /\ context.well.last_update < now

\* C15: History.add of a snapshot that equals the last stored entry in every
\* field but the time leaves the History as it is: the same entries, under
\* the same keys, in the same order, with the same contents, the time of the
\* stored entry included.
C15_AddOfEqualIsNoOp ==
  [][(/\ op' = "History.add"
      /\ Len(history) > 0
      /\ [History_last(history) EXCEPT !.time = measures[1].time] = measures[1])
     => history' = history
    ]_vars

\* C15 witness: a snapshot equal to the one stored entry but for its time
\* was added, and the History still has that one entry under the first time
C15_Witness ==
  /\ op = "History.add"
  /\ history_length = 1
  /\ Len(history) = 1
  /\ measures[1].time # history[1].key
  /\ history[1].value.time = history[1].key
  /\ [history[1].value EXCEPT !.time = measures[1].time] = measures[1]

\* C16: History.add of a snapshot that differs from the last stored entry in
\* a field other than the time, or into an empty History, adds exactly one
\* entry, which is the last one, under the snapshot's own time.
C16_AddOfDifferentGrows ==
  [][(/\ op' = "History.add"
      /\ \/ Len(history) = 0
         \/ [History_last(history) EXCEPT !.time = measures[1].time] # measures[1])
     => /\ Len(history') = Len(history) + 1
        /\ history'[Len(history')].key = measures[1].time
        /\ history'[Len(history')].value = measures[1]
    ]_vars

\* C17: the History is append-only: every entry stays, under its key, with
\* its contents, at its position.
C17_AppendOnly ==
  [][\A i \in 1..Len(history) :
       /\ Len(history') >= i
       /\ history'[i].key = history[i].key
       /\ history'[i].value = history[i].value
    ]_vars

\* C18: what History.add stores is a copy equal to the snapshot, its time
\* included, and not the caller's object: setting a field of the snapshot
\* afterwards changes no entry of the History.
C18_StoredCopyIsIndependent ==
  [][/\ (op' = "History.add" /\ history' # history) =>
          \E i \in 1..Len(history') :
            history'[i] = [key |-> measures[1].time, value |-> measures[1],
                           shared |-> FALSE]
     /\ op' \in {"Measures.set", "Measures.set after add"} => history' = history
    ]_vars

\* C18 witness: the snapshot the History stored a copy of has had its time
\* and its well_level set since, and the one entry still has the old ones
C18_Witness ==
  /\ op = "Measures.set after add"
  /\ history_length = 0
  /\ Len(history) = 1
  /\ history[1].key # measures[1].time
  /\ history[1].value.time = history[1].key
  /\ history[1].value.well_level # measures[1].well_level

C20_RunOrderAndPersistence ==
  [][/\ pc = "idle" => pc' \in {"action", "diverged"}
     /\ pc = "action" => pc' = "action2"
     /\ pc = "action2" => pc' = "measures"
     /\ pc = "measures" =>
          /\ pc' = "add"
          /\ measures'[1].time = now
          /\ measures'[1].current_state = context.current_state
          /\ State_check(context, now).ret = context.current_state
          /\ measures'[1].well_to_large_tank_pump_active
               = (context.current_state = FillLargeTank)
          /\ measures'[1].lower_to_small_tank_pump_active
               = (context.current_state = FillSmallTank)
          /\ UNCHANGED <<history, measures_file, history_file>>
     /\ pc = "add" =>
          /\ pc' = "persist"
          /\ UNCHANGED <<measures, measures_file, history_file>>
          /\ history_length = 0 => Len(history') = 1
     /\ (pc = "persist" /\ Len(history) > history_length) =>
          /\ pc' = "write_history"
          /\ History_last(history) = measures[1]
          /\ measures_file' = File(Measures_serialize(measures[1]))
          /\ UNCHANGED <<measures, history>>
     /\ (pc = "write_history" /\ pc' # "idle") =>
          /\ pc' = "sleep"
          /\ measures_file = File(Measures_serialize(measures[1]))
          /\ history_file' = File(History_serialize(history))
          /\ result' = measures
          /\ UNCHANGED <<history, measures_file>>
     /\ pc' = "sleep" => (measures_file' # NoFile /\ history_file' # NoFile)
    ]_vars

\* C20 witness: a tick later than the first has grown the History, written
\* both files and returned the snapshot
C20_Witness ==
  /\ pc = "sleep"
  /\ restarts = 0
  /\ result # <<>>
  /\ Len(history) >= 2
  /\ History_last(history) = result[1]
  /\ measures_file = File(Measures_serialize(result[1]))
  /\ history_file = File(History_serialize(history))

\* C21: in a tick of Controller.run in which the History did not grow, the
\* snapshot file alone is written (the history file is left as it is) when
\* the snapshot file is missing or was last written more than
\* HeartbeatWindow ago, and run returns the snapshot; otherwise the tick
\* writes nothing and run returns None.  A run returns a snapshot exactly
\* when the tick wrote the snapshot file.
C21_HeartbeatOnly ==
  [][/\ (pc = "persist" /\ ~(Len(history) > history_length)) =>
          IF measures_file = NoFile \/ now - measures_mtime > HeartbeatWindow
          THEN /\ measures_file' = File(Measures_serialize(measures[1]))
               /\ measures_mtime' = now
               /\ history_file' = history_file
               /\ result' = measures
               /\ pc' = "sleep"
          ELSE /\ UNCHANGED <<measures_file, measures_mtime, history_file>>
               /\ result' = <<>>
               /\ pc' = "sleep"
     /\ (pc \in {"persist", "write_history"} /\ pc' = "sleep") =>
          ((result' # <<>>) <=>
             \/ pc = "write_history"
             \/ <<measures_file, measures_mtime>>' # <<measures_file, measures_mtime>>)
    ]_vars

\* C21 happens: a tick has ended that wrote the snapshot file of this clock
\* value and returned the snapshot, while the History and its file still
\* hold the one entry of an earlier clock value.
C21_Witness ==
  /\ pc = "sleep"
  /\ result # <<>>
  /\ result[1].time = now
  /\ measures_file = File(Measures_serialize(result[1]))
  /\ measures_mtime = now
  /\ Len(history) = 1
  /\ history[1].key < now
  /\ history_file = File(History_serialize(history))

\* C22: Controller.load raises and assigns no context when the settings
\* file is absent, and the controller never ticks then.  When the settings
\* file is there and load returns, a missing snapshot file gives the
\* Context of the initial snapshot (well at 0% as of now, pumps off, state
\* FillWell entered now) and a missing history file gives an empty History;
\* with both missing load does return.
C22_LoadWithoutFiles ==
  [][/\ (pc = "start" /\ settings_file = NoFile) =>
          /\ pc' = "failed"
          /\ load_error' = FileNotFoundError
          /\ context' = NoContext
     /\ pc = "failed" => UNCHANGED vars
     /\ (pc = "start" /\ settings_file # NoFile /\ measures_file = NoFile
          /\ history_file = NoFile) => pc' = "idle"
     /\ (pc = "start" /\ pc' = "idle" /\ measures_file = NoFile) =>
          /\ context'.well = [level |-> 0, short |-> 0, last_update |-> now,
                              pump_active |-> FALSE]
          /\ context'.current_state = FillWell
          /\ context'.state_activated_at = now
          /\ ~context'.well_to_large_tank_pump
          /\ ~context'.lower_to_small_tank_pump
     /\ (pc = "start" /\ pc' = "idle" /\ history_file = NoFile) =>
          history' = <<>>
    ]_vars

\* C22 happens: load has raised FileNotFoundError on a missing settings
\* file, with a snapshot file and a history file that would have loaded.
C22_Witness ==
  /\ pc = "failed"
  /\ load_error = FileNotFoundError
  /\ settings_file = NoFile
  /\ context = NoContext
  /\ measures_file # NoFile
  /\ ~Measures_deserialize_raises(measures_file[1])
  /\ history_file # NoFile
  /\ ~History_deserialize_raises(history_file[1])

\* C23: a snapshot file or a history file that is there but does not parse
\* is recovered from when the controller starts: with the settings file
\* there, load returns; a history file that does not parse gives an empty
\* History and a snapshot file that does not parse gives the Context of the
\* initial snapshot, so that the controller can tick.
C23_CorruptFilesRecovered ==
  [][(/\ pc = "start"
      /\ settings_file # NoFile
      /\ \/ measures_file # NoFile /\ Measures_deserialize_raises(measures_file[1])
         \/ history_file # NoFile /\ History_deserialize_raises(history_file[1]))
     => /\ pc' = "idle"
        /\ load_error' = "none"
        /\ (history_file # NoFile /\ History_deserialize_raises(history_file[1]))
             => history' = <<>>
        /\ (measures_file # NoFile /\ Measures_deserialize_raises(measures_file[1]))
             => /\ context'.current_state = FillWell
                /\ context'.state_activated_at = now
                /\ context'.well.level = 0
    ]_vars

\* C25: a restart keeps the control state and its entry timestamp: the
\* Context that load builds from the snapshot on file has the snapshot's
\* current_state and state_activated_at.  So the time spent in
\* SettleLargeTank before the restart counts: as long as the snapshot on
\* file and the Context are both in SettleLargeTank with the large tank
\* FULL, a check leaves SettleLargeTank exactly when more than SettleTime
\* has passed since the snapshot's state_activated_at.
C25_RestartKeepsStateAndTimer ==
  [][/\ (pc = "start" /\ pc' = "idle" /\ measures_file # NoFile) =>
          /\ context'.current_state = json_loads(measures_file[1]).current_state
          /\ isoformat(context'.state_activated_at)
               = json_loads(measures_file[1]).state_activated_at
     /\ (/\ pc = "idle"
         /\ measures_file # NoFile
         /\ json_loads(measures_file[1]).current_state = SettleLargeTank
         /\ context.current_state = SettleLargeTank
         /\ context.large_tank = FULL) =>
          ((context'.current_state # SettleLargeTank) <=>
             (now - fromisoformat(json_loads(measures_file[1]).state_activated_at)
                > SettleTime))
    ]_vars

\* C25 happens: one clock unit after the start, hence with less than
\* SettleTime spent since the restart, the check has left SettleLargeTank for
\* FillSmallTank, the snapshot on file still being the one loaded, in
\* SettleLargeTank since more than SettleTime.
C25_Witness ==
  /\ pc = "action"
  /\ now = StartTime + 1
  /\ now - StartTime <= SettleTime
  /\ context.current_state = FillSmallTank
  /\ context.state_activated_at = now
  /\ measures_file # NoFile
  /\ measures_mtime < StartTime
  /\ json_loads(measures_file[1]).current_state = SettleLargeTank
  /\ now - fromisoformat(json_loads(measures_file[1]).state_activated_at) > SettleTime

\* C26, as claimed: from FillLargeTank with the well at 0% and the large
\* tank EMPTY, one Context.check ends in FillWell, and FillWell is not what
\* a single State.check call on FillLargeTank results in.
C26_FillWellOnlyByChaining ==
  [][(/\ context.current_state = FillLargeTank
      /\ Well_level(context.well, now) = 0
      /\ context.large_tank = EMPTY)
     => /\ op' = "Context.check" => context'.current_state = FillWell
        /\ op' = "State.check" => calls'[1].ret # FillWell
    ]_vars

\* C26, amended: from FillLargeTank with the well at 0% and the large tank
\* EMPTY, the single call FillLargeTank.check returns FillWell (and, being a
\* check, leaves the Context in FillLargeTank); Context.check makes that one
\* transition, stamps it, and its second call, FillWell.check, only confirms
\* the fixed point: no state lies between FillLargeTank and FillWell.
C26_SingleCheckReturnsFillWell ==
  [][(/\ context.current_state = FillLargeTank
      /\ Well_level(context.well, now) = 0
      /\ context.large_tank = EMPTY)
     => /\ op' = "Context.check" =>
             /\ context'.current_state = FillWell
             /\ context'.state_activated_at = now
             /\ Len(calls') = 2
             /\ calls'[1].state = FillLargeTank /\ calls'[1].ret = FillWell
             /\ calls'[2].state = FillWell /\ calls'[2].ret = FillWell
        /\ op' = "State.check" =>
             /\ Len(calls') = 1
             /\ calls'[1].state = FillLargeTank /\ calls'[1].ret = FillWell
             /\ context'.current_state = FillLargeTank
    ]_vars

\* C26 happens: a single FillLargeTank.check, called on an empty well and an
\* EMPTY large tank, has returned FillWell.
C26_Witness ==
  /\ op = "State.check"
  /\ Len(calls) = 1
  /\ calls[1].state = FillLargeTank
  /\ calls[1].well_level = 0
  /\ calls[1].large_tank = EMPTY
  /\ calls[1].ret = FillWell
  /\ context.current_state = FillLargeTank

\* C27: History.add compares with the most recent entry only: a snapshot
\* that equals (time aside) an earlier entry but differs from the last one,
\* and whose time is not yet a key, is stored again as a new last entry; so
\* after A, B, A with distinct times and A # B the History holds three
\* entries.
C27_DedupAgainstLastOnly ==
  [][(/\ op' = "History.add"
      /\ measures # <<>>
      /\ Len(history) > 0
      /\ ~Measures_eq(History_last(history), measures[1])
      /\ \E i \in 1..(Len(history) - 1) : Measures_eq(history[i].value, measures[1])
      /\ \A i \in 1..Len(history) : history[i].key # measures[1].time)
     => /\ Len(history') = Len(history) + 1
        /\ \A i \in 1..Len(history) : history'[i] = history[i]
        /\ history'[Len(history')].key = measures[1].time
        /\ history'[Len(history')].value = measures[1]
    ]_vars

\* C27 happens: the History holds three entries A, B, A, the third added
\* last, equal to the first and different from the second.
C27_Witness ==
  /\ op = "History.add"
  /\ Len(history) = 3
  /\ history_length = 2
  /\ Measures_eq(history[1].value, history[3].value)
  /\ ~Measures_eq(history[1].value, history[2].value)
  /\ history[1].key # history[3].key
  /\ measures = <<history[3].value>>

\* C28: in every reachable state of a Context the draining flag of the well
\* equals the active flag of the well-to-large-tank pump, whose only
\* subscriber the well is: one clock unit on, the well has drained by
\* 1/EmptyPeriod (down to 0) when that pump is on and filled by 1/FillPeriod
\* (up to 1) when it is off.  The large-to-small-tank pump has no subscriber
\* and its commands leave the well as it is.
C28_WellDrainsIffPumpOn ==
  /\ context.well.pump_active = WellPumpOn
  /\ Command_calls(context, WellOn) = <<PumpActivated>>
  /\ Command_calls(context, WellOff) = <<PumpDeactivated>>
  /\ LET base == Well_update_level(context.well, now).level
         later == Well_update_level(context.well, now + 1).level
     IN later = IF WellPumpOn THEN Max(0, base - EmptyStep)
                ELSE Min(LevelDen, base + FillStep)
  /\ SmallPump_activate(context, now).well = context.well
  /\ SmallPump_deactivate(context, now).well = context.well
  /\ Command_calls(context, SmallOn) = <<>>
  /\ Command_calls(context, SmallOff) = <<>>

\* C28 happens: the well-to-large-tank pump is on, the well is draining, and
\* a read one clock unit or more after the pump was switched on has found a
\* well that was full at two thirds (EmptyPeriod is 3).
C28_Witness ==
  /\ WellPumpOn
  /\ context.well.pump_active
  /\ context.current_state = FillLargeTank
  /\ op = "State.check"
  /\ calls[1].well_level = 66
  /\ context.well.last_update = now
  /\ 3 * context.well.level = 2 * LevelDen

\* C29: capturing a snapshot, Context.measures, is a read without side
\* effect: it changes no field of the well (fractional level, last_update,
\* draining flag), of the pumps, or of the control state and its entry
\* timestamp.
C29_MeasuresHasNoSideEffect ==
  [][pc = "measures" =>
       /\ context'.well.level = context.well.level
       /\ context'.well.short = context.well.short
       /\ context'.well.last_update = context.well.last_update
       /\ context'.well.pump_active = context.well.pump_active
       /\ WellPumpOn' = WellPumpOn
       /\ SmallPumpOn' = SmallPumpOn
       /\ context'.current_state = context.current_state
       /\ context'.state_activated_at = context.state_activated_at
    ]_vars

\* C30: the level read does not depend on how often the well was read: of
\* two Wells built alike and told of the same changes of the pump at the
\* same clock values, one of them also read (or told again of a change it
\* already knows) at earlier clock values, a read now gives the same
\* percentage.
C30_ReadsDoNotMatter ==
  Double_level(well, now) = Double_level(twin, now)


\* C24: on restart the Context that load builds from the snapshot on file
\* has a well built from the snapshot's well_level and capture time with the
\* pump off, so that the first level read is the smaller of 100 and the
\* persisted level plus 100 * elapsed / fill_period, whatever state and pump
\* flags the snapshot recorded; both pumps of the Context are off and its
\* state is the snapshot's; and the first check of a Context restored in
\* FillLargeTank whose large tank reads FULL ends in SettleLargeTank.
C24_RestartRebuildsWell ==
  [][/\ (pc = "start" /\ pc' = "idle" /\ measures_file # NoFile) =>
          LET m == Measures_deserialize(measures_file[1])
          IN /\ ~context'.well.pump_active
             /\ ~context'.well_to_large_tank_pump
             /\ ~context'.lower_to_small_tank_pump
             /\ context'.current_state = m.current_state
             /\ Well_level(context'.well, now)
                  = Min(100, m.well_level
                               + (100 * (now - m.time)) \div FillPeriod)
     /\ (/\ pc = "idle"
         /\ now = StartTime
         /\ pc' # "idle"
         /\ context.current_state = FillLargeTank
         /\ context.large_tank = FULL) =>
          context'.current_state = SettleLargeTank
    ]_vars

\* =====================================================================
\* SpecLegacy: the legacy controller run by main_loop.  The process is
\* started without a state file; the sensor pins change at any moment; an
\* exception that step lets through ends the process, which may be started
\* again on the state file it left.
\* =====================================================================
legacy_frame == <<context, history, measures_file, measures_mtime,
                  history_file, pc, history_length, measures, result, calls,
                  op, well_vars, notified, store_vars, runs>>

InitLegacy ==
  /\ now = 0
  /\ runs = 0
  /\ controller = WaterSystemController(NoFile)
  /\ sensor_pins \in SensorReadings
  /\ ws_pc = "constructed"
  /\ restarts = 0
  /\ well = Well_init(0, 0, 0)
  /\ twin = well
  /\ level_read = 0
  /\ built = [level |-> 0, last_update |-> 0, at |-> 0]
  /\ op = "none"
  /\ context = NoContext
  /\ history = <<>>
  /\ measures_file = NoFile
  /\ measures_mtime = 0
  /\ history_file = NoFile
  /\ pc = "legacy"
  /\ history_length = 0
  /\ measures = <<>>
  /\ result = <<>>
  /\ calls = <<>>
  /\ notified = <<>>
  /\ settings = ModelSettings
  /\ loaded = <<>>
  /\ settings_file = File(Settings_serialize(settings))
  /\ load_error = "none"

\* main_loop, lines 193-194: both pumps stopped before the first step
MainLoopStarts ==
  /\ ws_pc = "constructed"
  /\ controller' = main_loop_initialization(
                     [controller EXCEPT !.write_calls = 0], now)
  /\ ws_pc' = "loop"
  /\ UNCHANGED <<now, sensor_pins, restarts, legacy_frame>>

\* main_loop, line 197: one step; write_calls counts the writes of this step
Step ==
  /\ ws_pc = "loop"
  /\ controller' = step([controller EXCEPT !.write_calls = 0], sensor_pins, now)
  /\ ws_pc' = IF controller'.raised = "none" THEN "loop" ELSE "raised"
  /\ UNCHANGED <<now, sensor_pins, restarts, legacy_frame>>

\* pin.drive_high / pin.drive_low on the sensor pins
DriveSensors ==
  /\ ws_pc # "raised"
  /\ \E s \in SensorReadings :
       /\ s # sensor_pins
       /\ sensor_pins' = s
  /\ UNCHANGED <<now, controller, ws_pc, restarts, legacy_frame>>

\* time.sleep(1), line 198
LegacyClockAdvances ==
  /\ ws_pc # "raised"
  /\ now < MaxTime
  /\ now' = now + 1
  /\ UNCHANGED <<controller, sensor_pins, ws_pc, restarts, legacy_frame>>

\* lines 211-214: the process started again, on the state file as it is
Reconstruct ==
  /\ ws_pc = "raised"
  /\ restarts < MaxRestarts
  /\ restarts' = restarts + 1
  /\ controller' = WaterSystemController(controller.state_file)
  /\ ws_pc' = "constructed"
  /\ UNCHANGED <<now, sensor_pins, legacy_frame>>

NextLegacy ==
  \/ MainLoopStarts
  \/ Step
  \/ DriveSensors
  \/ LegacyClockAdvances
  \/ Reconstruct

SpecLegacy == InitLegacy /\ [][NextLegacy]_vars

\* =====================================================================
\* SpecLegacyCalls: the methods of a legacy controller called one by one,
\* as its tests do, on a controller constructed without a state file.
\* =====================================================================
CallStartPump ==
  /\ \E pump \in {"pump1", "pump2"} :
       /\ controller' = start_pump([controller EXCEPT !.write_calls = 0],
                                   pump, now)
       /\ op' = <<"start_pump", pump>>
  /\ UNCHANGED <<now, sensor_pins, ws_pc, restarts, context, history,
                 measures_file, measures_mtime, history_file, pc,
                 history_length, measures, result, calls, well_vars, notified,
                 store_vars, runs>>

CallStopPump ==
  /\ \E pump \in {"pump1", "pump2"} :
       /\ controller' = stop_pump([controller EXCEPT !.write_calls = 0],
                                  pump, now)
       /\ op' = <<"stop_pump", pump>>
  /\ UNCHANGED <<now, sensor_pins, ws_pc, restarts, context, history,
                 measures_file, measures_mtime, history_file, pc,
                 history_length, measures, result, calls, well_vars, notified,
                 store_vars, runs>>

\* time.sleep(1) between two calls
CallsClockAdvances ==
  /\ now < MaxTime
  /\ now' = now + 1
  /\ op' = <<"sleep">>
  /\ UNCHANGED <<controller, sensor_pins, ws_pc, restarts, context, history,
                 measures_file, measures_mtime, history_file, pc,
                 history_length, measures, result, calls, well_vars, notified,
                 store_vars, runs>>

NextLegacyCalls ==
  \/ CallStartPump
  \/ CallStopPump
  \/ CallsClockAdvances

SpecLegacyCalls == InitLegacy /\ [][NextLegacyCalls]_vars

\* C31: in the legacy controller a step taken while tank1_state is
\* 'emptying' and pump1_last_on is None ends with the exception raised by
\* transfer_water_to_tank2: no pump pin is switched, self.state is what it
\* was (tank1_state still 'emptying', pump2 not running), and the state file
\* is not written.
C31_EmptyingWithoutLastOnAborts ==
  [][(/\ ws_pc = "loop"
      /\ controller.state.tank1_state = "emptying"
      /\ controller.state.pump1_last_on = None
      /\ UNCHANGED <<now, sensor_pins>>) =>
        /\ controller'.raised = "Exception"
        /\ ws_pc' = "raised"
        /\ controller'.state = controller.state
        /\ controller'.pump_pins = controller.pump_pins
        /\ ~controller'.pump_pins.pump1 /\ ~controller'.pump_pins.pump2
        /\ ~controller'.state.pump2_running
        /\ controller'.state_file = controller.state_file
        /\ controller'.write_calls = 0
    ]_vars

\* C31 happens: a process started again on a state file holding 'emptying'
\* with pump1_last_on None has ended in its first step, which wrote nothing.
C31_Witness ==
  /\ ws_pc = "raised"
  /\ restarts = 1
  /\ controller.raised = "Exception"
  /\ controller.state.tank1_state = "emptying"
  /\ controller.state.pump1_last_on = None
  /\ controller.write_calls = 0
  /\ controller.pump_pins = [pump1 |-> FALSE, pump2 |-> FALSE]

\* C32: in the legacy controller start_pump on a pump recorded as running
\* leaves self.state as it was (<pump>_running, <pump>_start_time and
\* <pump>_last_on included) and does not write the state file; stop_pump on
\* a pump recorded as not running leaves self.state as it was too
\* (<pump>_last_on is not set) and does not write the state file.
C32_StartStopIdempotent ==
  [][\A pump \in {"pump1", "pump2"} :
       /\ (op' = <<"start_pump", pump>> /\ controller.state[running_key(pump)]) =>
            /\ controller'.state = controller.state
            /\ controller'.state_file = controller.state_file
            /\ controller'.write_calls = 0
       /\ (op' = <<"stop_pump", pump>> /\ ~controller.state[running_key(pump)]) =>
            /\ controller'.state = controller.state
            /\ controller'.state[last_on_key(pump)]
                 = controller.state[last_on_key(pump)]
            /\ controller'.state_file = controller.state_file
            /\ controller'.write_calls = 0
    ]_vars

\* C32 happens: start_pump('pump1') was called again after the clock moved
\* on, as in test_start_pump_twice, and pump1_start_time is still the time
\* of the first call; pump2, stopped without ever running, has no
\* pump2_last_on.
C32_Witness ==
  /\ controller.state.pump1_running
  /\ op = <<"start_pump", "pump1">>
  /\ controller.write_calls = 0
  /\ controller.state.pump1_start_time # None
  /\ fromisoformat(controller.state.pump1_start_time) < now
  /\ json_loads(controller.state_file[1]) = controller.state
  /\ ~controller.state.pump2_running
  /\ controller.state.pump2_last_on = None
  /\ ~controller.pump_pins.pump2

\* C39: in the legacy controller started from the default state (no state
\* file), whatever the sensors read and however many steps are taken,
\* pump1_last_on is set whenever tank1_state is 'emptying', and no step
\* ends with the exception of transfer_water_to_tank2.
C39_EmptyingHasLastOn ==
  restarts = 0 =>
    /\ controller.state.tank1_state = "emptying" =>
         controller.state.pump1_last_on # None
    /\ controller.raised = "none"

\* C34: the two pumps are never on at the same time, from startup on:
\* neither after a tick nor between the two pump commands of an action.
C34_PumpsNeverBothOn ==
  context # NoContext =>
    ~(context.well_to_large_tank_pump /\ context.lower_to_small_tank_pump)

\* C35: on any Context, at one clock value, the loop of Context.check
\* settles: it makes at most two state changes (three State.check calls)
\* and no state is checked twice in one call.
C35_CheckSettlesInTwoChanges ==
  LET r == Context_check(context, now)
  IN /\ ~r.diverged
     /\ Len(r.calls) <= 3
     /\ \A i \in 1..Len(r.calls) : \A j \in 1..Len(r.calls) :
          i # j => r.calls[i].state # r.calls[j].state
     /\ r.calls[Len(r.calls)].ret = r.ctx.current_state

\* C35 happens: one Context.check went SettleLargeTank -> FillSmallTank ->
\* SmallTankInUse, the longest chain, and called nothing more.
C35_Witness ==
  /\ op = "Context.check"
  /\ Len(calls) = 3
  /\ calls[1].state = SettleLargeTank
  /\ calls[2].state = FillSmallTank
  /\ calls[3].state = SmallTankInUse
  /\ calls[3].ret = SmallTankInUse
  /\ context.current_state = SmallTankInUse

\* =====================================================================
\* SpecLive: the Controller as in Spec, with floaters that move while a run
\* is under way (GPIOTank.level reads the pins at every access, so the
\* level that check read, the level at the pump commands and the level
\* that measures records may differ), with sleeps of one or two clock units,
\* and with a clock that may show the same value to two runs in a row
\* (datetime.now() is the local wall clock, which can be set back; the tests
\* freeze it).
\* =====================================================================
\* In SpecLive the clock runs from 0 to MaxLiveTime and main starts at most
\* MaxRuns runs.
MaxLiveTime == 3
MaxRuns == 3

\* the floaters move between self.context.check() and self.context.measures():
\* during one run, by one step at most from what check read
FloatersMove ==
  /\ pc \in {"action", "action2", "measures"}
  /\ \E large \in TankLevel, small \in TankLevel :
       /\ <<large, small>> # <<context.large_tank, context.small_tank>>
       /\ Moves(calls[Len(calls)].large_tank, calls[Len(calls)].small_tank,
                large, small)
       /\ context' = [context EXCEPT !.large_tank = large, !.small_tank = small]
  /\ UNCHANGED <<now, history, measures_file, measures_mtime, history_file, pc,
                 history_length, measures, result, calls, restarts, direct_vars,
                 notified, store_vars, legacy_vars, runs>>

\* main, line 551: time.sleep(1), after which the clock has advanced
LiveSleep ==
  /\ pc = "sleep"
  /\ runs < MaxRuns
  /\ runs' = runs + 1
  /\ \E d \in 1..2 :
       /\ now + d <= MaxLiveTime
       /\ now' = now + d
  /\ \E large \in TankLevel, small \in TankLevel :
       /\ Moves(context.large_tank, context.small_tank, large, small)
       /\ context' = [context EXCEPT !.large_tank = large, !.small_tank = small]
  /\ result' = <<>>
  /\ pc' = "idle"
  /\ UNCHANGED <<history, measures_file, measures_mtime, history_file,
                 history_length, measures, calls, restarts, direct_vars,
                 notified, store_vars, legacy_vars>>

\* main, line 551: time.sleep(1), after which datetime.now() gives the value
\* it gave to the last run
SleepOnSameClock ==
  /\ pc = "sleep"
  /\ runs < MaxRuns
  /\ runs' = runs + 1
  /\ \E large \in TankLevel, small \in TankLevel :
       /\ Moves(context.large_tank, context.small_tank, large, small)
       /\ context' = [context EXCEPT !.large_tank = large, !.small_tank = small]
  /\ result' = <<>>
  /\ pc' = "idle"
  /\ UNCHANGED <<now, history, measures_file, measures_mtime, history_file,
                 history_length, measures, calls, restarts, direct_vars,
                 notified, store_vars, legacy_vars>>

NextLive ==
  \/ LiveSleep
  \/ SleepOnSameClock
  \/ FloatersMove
  \/ RunCheck
  \/ RunActionFirst
  \/ RunActionSecond
  \/ RunMeasures
  \/ RunHistoryAdd
  \/ RunWriteMeasures
  \/ RunWriteHistory
  \/ RunHeartbeat
  \/ RunNothing

SpecLive == Init /\ [][NextLive]_vars

\* C33: every snapshot that Controller.run captures is consistent with
\* itself: well_to_large_tank_pump_active iff current_state is
\* FillLargeTank, lower_to_small_tank_pump_active iff current_state is
\* FillSmallTank, and current_state is what its check returns on the tank
\* and well levels the snapshot records.
C33_SnapshotIsConsistent ==
  pc = "add" =>
    LET m == measures[1]
        c == [context EXCEPT !.large_tank = m.large_tank_level,
                             !.small_tank = m.small_tank_level,
                             !.current_state = m.current_state,
                             !.state_activated_at = m.state_activated_at]
    IN /\ m.well_to_large_tank_pump_active <=> (m.current_state = FillLargeTank)
       /\ m.lower_to_small_tank_pump_active <=> (m.current_state = FillSmallTank)
       /\ Well_level(c.well, m.time) = m.well_level
       /\ State_check(c, m.time).ret = m.current_state

\* C37: after every Controller.run tick, once the history file exists, the
\* history file holds the in-memory History, also when two ticks observe
\* the same clock value.
C37_HistoryFileFollowsHistory ==
  (pc = "sleep" /\ history_file # NoFile) =>
    history_file = File(History_serialize(history))

\* C36: a pump is left running only under safe readings.  When a tick ends,
\* if it leaves the well-to-large-tank pump on then every State.check call
\* of that tick read the large tank not FULL and the well above 0%, and if it
\* leaves the large-to-small-tank pump on then the settled state's check
\* read the large tank not EMPTY and the small tank not FULL.  So a tick
\* that reads the well at 0% or the large tank FULL leaves the well pump
\* off.
C36_PumpOnOnlyUnderSafeReadings ==
  [][(pc \in {"persist", "write_history"} /\ pc' = "sleep") =>
       /\ Len(calls) >= 1
       /\ context'.well_to_large_tank_pump =>
            \A i \in 1..Len(calls) :
              calls[i].large_tank # FULL /\ calls[i].well_level > 0
       /\ context'.lower_to_small_tank_pump =>
            /\ calls[Len(calls)].large_tank # EMPTY
            /\ calls[Len(calls)].small_tank # FULL
       /\ (calls[1].well_level = 0 \/ calls[1].large_tank = FULL) =>
            ~context'.well_to_large_tank_pump
    ]_vars

\* C36 happens: the tick before this one left the well pump on; this tick
\* read the large tank FULL in FillLargeTank, moved to SettleLargeTank, has
\* switched the well pump off and is about to end.
C36_Witness ==
  /\ pc = "write_history"
  /\ Len(calls) = 2
  /\ calls[1].state = FillLargeTank
  /\ calls[1].large_tank = FULL
  /\ calls[1].well_level > 0
  /\ calls[1].ret = SettleLargeTank
  /\ ~context.well_to_large_tank_pump
  /\ ~context.well.pump_active
  /\ Len(history) >= 2
  /\ history[Len(history) - 1].value.well_to_large_tank_pump_active
  /\ ~history[Len(history)].value.well_to_large_tank_pump_active

\* =====================================================================
\* SpecBeat: the Controller with runs that take time.  Controller.run
\* reads the clock more than once: Context.measures stamps the snapshot
\* (line 186), should_write_heartbeat reads datetime.now() again (line
\* 514) and the file's modification time is the time of the write (lines
\* 526, 534).  Consecutive runs stamp their snapshots at most one
\* HeartbeatWindow apart.
\* =====================================================================

\* Controller.run between line 521 and line 525: the clock moves on after
\* the snapshot was stamped, once in a run
RunTakesTime ==
  /\ pc = "persist"
  /\ now < MaxTime
  /\ now = measures[1].time
  /\ now' = now + 1
  /\ UNCHANGED <<pc, context, history, measures_file, measures_mtime,
                 history_file, history_length, measures, result, calls,
                 restarts, direct_vars, notified>>
  /\ UNCHANGED store_vars
  /\ UNCHANGED <<legacy_vars, runs>>

\* main, line 551: the sleep between two runs; the next run stamps its
\* snapshot at most HeartbeatWindow after this one did (the well was read
\* when the snapshot was stamped, line 186)
BeatSleep ==
  /\ pc = "sleep"
  /\ \E t \in now..(now + 1) :
       /\ t <= MaxTime
       /\ t - context.well.last_update <= HeartbeatWindow
       /\ now' = t
       /\ \E large \in TankLevel, small \in TankLevel :
            /\ IF t = now
               THEN large = context.large_tank /\ small = context.small_tank
               ELSE Moves(context.large_tank, context.small_tank, large, small)
            /\ context' = [context EXCEPT !.large_tank = large,
                                          !.small_tank = small]
  /\ result' = <<>>
  /\ pc' = "idle"
  /\ UNCHANGED <<history, measures_file, measures_mtime, history_file,
                 history_length, measures, calls, restarts, direct_vars,
                 notified>>
  /\ UNCHANGED store_vars
  /\ UNCHANGED <<legacy_vars, runs>>

NextBeat ==
  \/ BeatSleep
  \/ RunTakesTime
  \/ RunCheck
  \/ RunActionFirst
  \/ RunActionSecond
  \/ RunMeasures
  \/ RunHistoryAdd
  \/ RunWriteMeasures
  \/ RunWriteHistory
  \/ RunHeartbeat
  \/ RunNothing

SpecBeat == Init /\ [][NextBeat]_vars

\* web.py translate_measures, line 141: the dashboard's flag at read time t
no_heartbeat(mfile, t) ==
  t - fromisoformat(json_loads(mfile[1]).time) > 2 * HeartbeatWindow

\* C40: while runs follow each other at most one HeartbeatWindow apart, at
\* any read time the persisted snapshot is at most two HeartbeatWindows old,
\* so the dashboard's no_heartbeat flag is never raised on a running
\* controller, however long nothing changes.
C40_NoHeartbeatOnlyWhenStopped ==
  measures_file # NoFile => ~no_heartbeat(measures_file, now)

\* =====================================================================
\* SpecFair: the Controller of Spec kept running.  main's loop (lines
\* 548-551) calls run and sleeps for ever, so a step of the loop that can
\* be taken is taken: weak fairness on the loop's steps.  The process is
\* not stopped.
\* =====================================================================

NextTicks ==
  \/ Sleep
  \/ RunCheck
  \/ RunActionFirst
  \/ RunActionSecond
  \/ RunMeasures
  \/ RunHistoryAdd
  \/ RunWriteMeasures
  \/ RunWriteHistory
  \/ RunHeartbeat
  \/ RunNothing

SpecFair == Init /\ [][NextTicks]_vars /\ WF_vars(NextTicks)

\* the controller is in state s, between or inside runs, with period clock
\* units left
StateWithTimeLeft(s, period) ==
  /\ pc \in {"idle", "action", "action2", "measures", "add", "persist",
             "write_history", "sleep"}
  /\ context.current_state = s
  /\ now + period <= MaxTime

\* the first State.check call of a run was made in state s and left it
CheckLeft(s) ==
  /\ pc = "action"
  /\ Len(calls) >= 1
  /\ calls[1].state = s
  /\ calls[1].ret # s

\* C38: the machine cannot get stuck through its own pump control.  With
\* runs repeating and the clock advancing, a controller in FillWell reaches
\* FillLargeTank within fill_period (both pumps are off, the well fills to
\* 100%), and a controller in FillLargeTank leaves it for SettleLargeTank
\* or FillWell within empty_period (the well pump is on, the well drains
\* to 0%), whatever the floaters read.
C38_NeverStuck ==
  /\ StateWithTimeLeft(FillWell, FillPeriod) ~>
       (CheckLeft(FillWell) /\ calls[1].ret = FillLargeTank)
  /\ StateWithTimeLeft(FillLargeTank, EmptyPeriod) ~>
       (CheckLeft(FillLargeTank) /\ calls[1].ret \in {SettleLargeTank, FillWell})

\* C38 happens: a controller that filled the well, pumped through a whole
\* empty_period with the large tank never FULL, and leaves FillLargeTank
\* for FillWell on reading the well at 0%.
C38_Witness ==
  /\ CheckLeft(FillLargeTank)
  /\ calls[1].ret = FillWell
  /\ calls[1].well_level = 0
  /\ calls[1].large_tank # FULL
  /\ now >= FillPeriod + EmptyPeriod

====
